---- MODULE Spec2Model ----
(***************************************************************************)
(* Real-time fan-out and thread-integrity core of the chat server:         *)
(*   - the in-memory connection registry `clients` and the three           *)
(*     broadcast functions (server/routes.ts, WebSocket section);          *)
(*   - POST /api/messages (depth check, routing inheritance, root routing  *)
(*     validation, room broadcast, notification fan-out);                  *)
(*   - DatabaseStorage.getThreadTree.                                      *)
(***************************************************************************)
EXTENDS Integers, Sequences, FiniteSets, TLC

\* ------------------------------------------------------------------ values

\* JavaScript null / undefined (a missing JSON field)
Null == "null"
Undefined == "undefined"

\* `!x` for the values a room id or a channelId field takes here
Falsy(x) == x \in {Null, Undefined, ""}

\* `a ?? b`
Coalesce(a, b) == IF a \in {Null, Undefined} THEN b ELSE a

\* `a || b`
OrElse(a, b) == IF Falsy(a) THEN b ELSE a

\* ------------------------------------------------------------------ fixtures

Users == {"A", "B", "C"}
Sockets == {"s1", "s2"}

\* rows of the channels table: id -> type
ChannelType == [general |-> "public", priv |-> "private"]
ChannelIds == DOMAIN ChannelType

\* rows of channel_members (unique per (channel, user)), in table order
ChannelMembers == [general |-> <<>>, priv |-> <<"A", "B", "C">>]

\* rows of direct_messages: id -> participants (deduplicated and sorted by
\* getOrCreateDirectMessage)
DmParticipants == [dm1 |-> <<"A", "B">>]
DmIds == DOMAIN DmParticipants

RoomIds == ChannelIds \cup DmIds

\* the `channels` field of a join frame: missing (the client omits it when it
\* has no channel), or an array of room ids
NoChannels == [defined |-> FALSE]
ChannelsField(arr) == [defined |-> TRUE, value |-> arr]
JoinChannelInputs ==
    {NoChannels, ChannelsField(<<"general">>), ChannelsField(<<"priv", "dm1">>)}

\* `message.channels || []` (an array, even an empty one, is truthy)
ChannelsOrEmpty(ch) == IF ch.defined THEN ch.value ELSE <<>>

\* payloads handed to the broadcast functions by their callers
Payloads == {"p1"}

\* session users that send POST /api/messages requests
Posters == {"B", "C"}

\* ids the storage generates for the rows of the messages table, in order
MsgIds == <<"m1", "m2", "m3", "m4", "m5", "m6">>

\* capacity of the messages table
MaxMsgs == 3

\* ids a request can name: those of the table's rows, existing or not yet
RequestMsgIds == {MsgIds[i] : i \in 1..MaxMsgs}

\* capacity of the messages table under fan-out failures
MaxFanoutMsgs == 2

\* ids a request can name under fan-out failures
FanoutRequestMsgIds == {MsgIds[i] : i \in 1..MaxFanoutMsgs}

\* largest maxDepth a getThreadTree call is made with
MaxDepthArg == 4

\* largest messages table getThreadTree is called on
MaxThreadMsgs == 4

\* message ids the reaction routes pass to broadcastReactionUpdate
ReactionMsgIds == {MsgIds[1]}

\* the userId, channelId (a room id, or missing) and isTyping fields of the
\* typing frames clients send
TypingInputs ==
    {[userId |-> "A", channelId |-> c, isTyping |-> TRUE] : c \in {"general", Undefined}}
    \cup {[userId |-> "B", channelId |-> c, isTyping |-> FALSE] : c \in {"priv", "dm1"}}

\* the maxDepth GET /api/threads/:messageId passes to getThreadTree
ThreadViewDepth == 3

\* "max 3 levels": root = 1, reply = 2, reply-of-reply = 3
DepthLimit == 3

\* the route handlers that can be between two awaits at the same time
Handlers == {"r1", "r2"}

\* a handler that is not running
Idle == [pc |-> "idle"]
NoRequests == [r \in Handlers |-> Idle]

VARIABLES
    clients,        \* Map<userId, {ws, userId, channels}> in insertion order
    readyState,     \* ws.readyState of every socket ("NONE": not connected yet)
    messages,       \* the messages table, in insertion order
    notifications,  \* the notifications table, in insertion order
    lastOp,         \* the handler or function that ran last, its inputs and response
    sent,           \* the ws.send calls it made, in order: <<[ws, frame], ...>>
    inflight,       \* the locals and the position of every handler that awaits
    invites,        \* the workspace_invites table, in insertion order
    workspaceMembers \* the workspace_members table, in insertion order

vars == <<clients, readyState, messages, notifications, lastOp, sent,
          inflight, invites, workspaceMembers>>

\* ------------------------------------------------------------------ registry

\* Array.prototype.includes
Includes(arr, x) == \E i \in DOMAIN arr : arr[i] = x

\* index of the entry stored under key u, 0 when there is none
KeyIndex(map, u) ==
    IF \E i \in DOMAIN map : map[i].userId = u
    THEN CHOOSE i \in DOMAIN map : map[i].userId = u
    ELSE 0

\* Map.prototype.has
MapHas(map, u) == KeyIndex(map, u) # 0

\* Map.prototype.get, for a key the map has
MapGet(map, u) == map[KeyIndex(map, u)]

\* Map.prototype.get as an optional: <<>> for undefined, <<entry>> otherwise
MapLookup(map, u) == IF MapHas(map, u) THEN <<MapGet(map, u)>> ELSE <<>>

\* Map.prototype.set: an existing key keeps its position and gets the new value
MapSet(map, u, entry) ==
    IF KeyIndex(map, u) = 0
    THEN Append(map, entry)
    ELSE [map EXCEPT ![KeyIndex(map, u)] = entry]

\* sequence s without its i-th element
RemoveAt(s, i) == [j \in 1..(Len(s) - 1) |-> IF j < i THEN s[j] ELSE s[j + 1]]

\* a close handler that deletes the first entry it iterates over
CloseHandlerDropsFirst(map, ws) == IF map = <<>> THEN map ELSE Tail(map)

\* the close handler's loop: delete the first entry whose ws is the closing
\* socket, then break
CloseHandler(map, ws) ==
    IF \E i \in DOMAIN map : map[i].ws = ws
    THEN RemoveAt(map, CHOOSE i \in DOMAIN map :
                         /\ map[i].ws = ws
                         /\ \A j \in 1..(i - 1) : map[j].ws # ws)
    ELSE map

\* a join that merges the new channel list into the entry it finds
JoinHandlerMerging(map, ws, userId, channels) ==
    MapSet(map, userId,
           [ws |-> ws, userId |-> userId,
            channels |-> (IF MapHas(map, userId) THEN MapGet(map, userId).channels ELSE <<>>)
                         \o ChannelsOrEmpty(channels)])

\* case 'join' of the message handler
JoinHandler(map, ws, userId, channels) ==
    MapSet(map, userId, [ws |-> ws, userId |-> userId, channels |-> ChannelsOrEmpty(channels)])

\* ------------------------------------------------------------------ broadcast

ChannelFrame(type, data, channelId) == [type |-> type, data |-> data, channelId |-> channelId]
UserFrame(type, data) == [type |-> type, data |-> data]

\* a room broadcast that treats a missing room id as "every room"
BroadcastToChannelNullIsAll(map, rs, channelId, type, data) ==
    LET hit == SelectSeq(map, LAMBDA c :
                   (Falsy(channelId) \/ Includes(c.channels, channelId)) /\ rs[c.ws] = "OPEN")
    IN [i \in 1..Len(hit) |->
           [ws |-> hit[i].ws, frame |-> ChannelFrame(type, data, channelId)]]

\* a room broadcast that skips the readyState test
BroadcastToChannelAnyState(map, rs, channelId, type, data) ==
    IF Falsy(channelId) THEN <<>>
    ELSE LET hit == SelectSeq(map, LAMBDA c : Includes(c.channels, channelId))
         IN [i \in 1..Len(hit) |->
                [ws |-> hit[i].ws, frame |-> ChannelFrame(type, data, channelId)]]

\* broadcastToChannel: the sends it makes, in Map iteration order
BroadcastToChannel(map, rs, channelId, type, data) ==
    IF Falsy(channelId) THEN <<>>
    ELSE LET hit == SelectSeq(map, LAMBDA c :
                        Includes(c.channels, channelId) /\ rs[c.ws] = "OPEN")
         IN [i \in 1..Len(hit) |->
                [ws |-> hit[i].ws, frame |-> ChannelFrame(type, data, channelId)]]

\* a user broadcast that skips the readyState test
BroadcastToUserAnyState(map, rs, userId, type, data) ==
    IF MapHas(map, userId)
    THEN <<[ws |-> MapGet(map, userId).ws, frame |-> UserFrame(type, data)]>>
    ELSE <<>>

\* broadcastToUser
BroadcastToUser(map, rs, userId, type, data) ==
    IF MapHas(map, userId) /\ rs[MapGet(map, userId).ws] = "OPEN"
    THEN <<[ws |-> MapGet(map, userId).ws, frame |-> UserFrame(type, data)]>>
    ELSE <<>>

ReactionFrame(messageId) == [type |-> "reactionUpdate", messageId |-> messageId]

\* a reaction broadcast that goes to the entries subscribed to some room only
BroadcastReactionUpdateSubscribed(map, rs, messageId) ==
    LET hit == SelectSeq(map, LAMBDA c : c.channels # <<>> /\ rs[c.ws] = "OPEN")
    IN [i \in 1..Len(hit) |-> [ws |-> hit[i].ws, frame |-> ReactionFrame(messageId)]]

\* a reaction broadcast over the connected sockets instead of the registry
BroadcastReactionUpdateAllSockets(map, rs, messageId) ==
    LET hit == SelectSeq(<<"s1", "s2">>, LAMBDA s : rs[s] = "OPEN")
    IN [i \in 1..Len(hit) |-> [ws |-> hit[i], frame |-> ReactionFrame(messageId)]]

\* broadcastReactionUpdate: the sends it makes, in Map iteration order
BroadcastReactionUpdate(map, rs, messageId) ==
    LET hit == SelectSeq(map, LAMBDA c : rs[c.ws] = "OPEN")
    IN [i \in 1..Len(hit) |-> [ws |-> hit[i].ws, frame |-> ReactionFrame(messageId)]]

TypingFrame(userId, channelId, isTyping) ==
    [type |-> "typing", userId |-> userId, channelId |-> channelId, isTyping |-> isTyping]

\* a typing relay that forwards the frame it received as the data
TypingHandlerRaw(map, rs, message) ==
    BroadcastToChannel(map, rs, message.channelId, "typing", message)

\* case 'typing' of the message handler
TypingHandler(map, rs, message) ==
    BroadcastToChannel(map, rs, message.channelId, "typing",
                       [userId |-> message.userId, isTyping |-> message.isTyping])

\* ------------------------------------------------------------------ messages

\* row number of the message with this id, 0 when there is none
MsgIndex(store, id) ==
    IF \E i \in DOMAIN store : store[i].id = id
    THEN CHOOSE i \in DOMAIN store : store[i].id = id
    ELSE 0

\* storage.getMessage found a row
HasMessage(store, id) == MsgIndex(store, id) # 0

\* storage.getMessage, for an id that has a row
GetMessage(store, id) == store[MsgIndex(store, id)]

\* a parent walk that stops one level early
RECURSIVE ParentWalkShallow(_, _, _, _)
ParentWalkShallow(store, currentId, visited, parentDepth) ==
    IF Falsy(currentId) THEN parentDepth
    ELSE IF currentId \in visited THEN parentDepth
    ELSE IF ~HasMessage(store, currentId) THEN parentDepth
    ELSE IF parentDepth + 1 >= DepthLimit - 1 THEN DepthLimit
    ELSE ParentWalkShallow(store,
                           Coalesce(GetMessage(store, currentId).parentMessageId, Null),
                           visited \cup {currentId},
                           parentDepth + 1)

\* the `while (currentId)` loop of POST /api/messages: the value of
\* parentDepth when the loop ends
RECURSIVE ParentWalk(_, _, _, _)
ParentWalk(store, currentId, visited, parentDepth) ==
    IF Falsy(currentId) THEN parentDepth
    ELSE IF currentId \in visited THEN parentDepth
    ELSE IF ~HasMessage(store, currentId) THEN parentDepth
    ELSE IF parentDepth + 1 >= DepthLimit THEN parentDepth + 1
    ELSE ParentWalk(store,
                    Coalesce(GetMessage(store, currentId).parentMessageId, Null),
                    visited \cup {currentId},
                    parentDepth + 1)

ParentDepth(store, parentMessageId) == ParentWalk(store, parentMessageId, {}, 0)

Rejected(text) == [ok |-> FALSE, message |-> text]
Resolved(channelId, directMessageId) ==
    [ok |-> TRUE, channelId |-> channelId, directMessageId |-> directMessageId]

\* a validation that lets the routing sent by the client win over the parent's
ValidateRoutingClientWins(store, parentMessageId, channelId, directMessageId) ==
    IF ~Falsy(parentMessageId)
    THEN IF ParentDepth(store, parentMessageId) >= DepthLimit
         THEN Rejected("Thread depth limit reached (max 3 levels)")
         ELSE IF ~HasMessage(store, parentMessageId)
         THEN Rejected("Parent message not found")
         ELSE IF Falsy(channelId) /\ Falsy(directMessageId)
         THEN Resolved(Coalesce(GetMessage(store, parentMessageId).channelId, Null),
                       Coalesce(GetMessage(store, parentMessageId).directMessageId, Null))
         ELSE Resolved(channelId, directMessageId)
    ELSE IF Falsy(channelId) /\ Falsy(directMessageId)
         THEN Rejected("Either channelId or directMessageId is required")
         ELSE IF ~Falsy(channelId) /\ ~Falsy(directMessageId)
         THEN Rejected("Provide only one of channelId or directMessageId")
         ELSE Resolved(channelId, directMessageId)

\* a validation without the test for two routing targets
ValidateRoutingNoAmbiguity(store, parentMessageId, channelId, directMessageId) ==
    IF ~Falsy(parentMessageId)
    THEN IF ParentDepth(store, parentMessageId) >= DepthLimit
         THEN Rejected("Thread depth limit reached (max 3 levels)")
         ELSE IF ~HasMessage(store, parentMessageId)
         THEN Rejected("Parent message not found")
         ELSE Resolved(Coalesce(GetMessage(store, parentMessageId).channelId, Null),
                       Coalesce(GetMessage(store, parentMessageId).directMessageId, Null))
    ELSE IF Falsy(channelId) /\ Falsy(directMessageId)
         THEN Rejected("Either channelId or directMessageId is required")
         ELSE Resolved(channelId, directMessageId)

\* a validation that takes a reply to a missing parent for a root message
ValidateRoutingOrphanAsRoot(store, parentMessageId, channelId, directMessageId) ==
    IF ~Falsy(parentMessageId) /\ HasMessage(store, parentMessageId)
    THEN IF ParentDepth(store, parentMessageId) >= DepthLimit
         THEN Rejected("Thread depth limit reached (max 3 levels)")
         ELSE Resolved(Coalesce(GetMessage(store, parentMessageId).channelId, Null),
                       Coalesce(GetMessage(store, parentMessageId).directMessageId, Null))
    ELSE IF Falsy(channelId) /\ Falsy(directMessageId)
         THEN Rejected("Either channelId or directMessageId is required")
         ELSE IF ~Falsy(channelId) /\ ~Falsy(directMessageId)
         THEN Rejected("Provide only one of channelId or directMessageId")
         ELSE Resolved(channelId, directMessageId)

\* a validation that overwrites the channelId of a reply with its parent's and
\* leaves the directMessageId the client sent
ValidateRoutingChannelOnly(store, parentMessageId, channelId, directMessageId) ==
    IF ~Falsy(parentMessageId)
    THEN IF ParentDepth(store, parentMessageId) >= DepthLimit
         THEN Rejected("Thread depth limit reached (max 3 levels)")
         ELSE IF ~HasMessage(store, parentMessageId)
         THEN Rejected("Parent message not found")
         ELSE Resolved(Coalesce(GetMessage(store, parentMessageId).channelId, Null),
                       directMessageId)
    ELSE IF Falsy(channelId) /\ Falsy(directMessageId)
         THEN Rejected("Either channelId or directMessageId is required")
         ELSE IF ~Falsy(channelId) /\ ~Falsy(directMessageId)
         THEN Rejected("Provide only one of channelId or directMessageId")
         ELSE Resolved(channelId, directMessageId)

\* the checks of POST /api/messages between the body parse and createMessage
ValidateRouting(store, parentMessageId, channelId, directMessageId) ==
    IF ~Falsy(parentMessageId)
    THEN IF ParentDepth(store, parentMessageId) >= DepthLimit
         THEN Rejected("Thread depth limit reached (max 3 levels)")
         ELSE IF ~HasMessage(store, parentMessageId)
         THEN Rejected("Parent message not found")
         ELSE Resolved(Coalesce(GetMessage(store, parentMessageId).channelId, Null),
                       Coalesce(GetMessage(store, parentMessageId).directMessageId, Null))
    ELSE IF Falsy(channelId) /\ Falsy(directMessageId)
         THEN Rejected("Either channelId or directMessageId is required")
         ELSE IF ~Falsy(channelId) /\ ~Falsy(directMessageId)
         THEN Rejected("Provide only one of channelId or directMessageId")
         ELSE Resolved(channelId, directMessageId)

\* storage.createMessage: the row the insert returns
NewMessage(store, userId, parentMessageId, routing) ==
    [id |-> MsgIds[Len(store) + 1],
     parentMessageId |-> parentMessageId,
     channelId |-> routing.channelId,
     directMessageId |-> routing.directMessageId,
     senderId |-> userId]

\* a recipient filter that keeps the sender
ExceptNobody(arr, userId) == arr

\* Array.prototype.filter(p => p !== userId), and the `continue` of the
\* member loop
Except(arr, userId) == SelectSeq(arr, LAMBDA p : p # userId)

\* the users the fan-out of POST /api/messages creates a notification for, in order
Recipients(message, userId) ==
    IF ~Falsy(message.directMessageId)
    THEN IF message.directMessageId \in DmIds
         THEN Except(DmParticipants[message.directMessageId], userId)
         ELSE <<>>
    ELSE IF ~Falsy(message.channelId)
    THEN IF message.channelId \in ChannelIds /\ ChannelType[message.channelId] = "private"
         THEN Except(ChannelMembers[message.channelId], userId)
         ELSE <<>>
    ELSE <<>>

\* the row storage.createNotification inserts for a recipient
NewNotification(message, rid) ==
    [userId |-> rid,
     type |-> "message.created",
     isRead |-> FALSE,
     data |-> IF ~Falsy(message.directMessageId)
              THEN [directMessageId |-> message.directMessageId, messageId |-> message.id]
              ELSE [channelId |-> message.channelId, messageId |-> message.id]]

FanoutRows(message, userId) ==
    LET r == Recipients(message, userId)
    IN [i \in 1..Len(r) |-> NewNotification(message, r[i])]

\* the broadcastToUser calls of the fan-out loops, one per created row
RECURSIVE FanoutSends(_, _, _)
FanoutSends(map, rs, rows) ==
    IF rows = <<>> THEN <<>>
    ELSE BroadcastToUser(map, rs, Head(rows).userId, "notification", Head(rows))
         \o FanoutSends(map, rs, Tail(rows))

\* a storage call of the fan-out that throws: the DM lookup, the channel
\* lookup, the member lookup, or the call-th createNotification of the request
NoFailure == [op |-> "none", call |-> 0]
FanoutFailures ==
    {NoFailure}
    \cup {[op |-> o, call |-> 1] :
             o \in {"getDirectMessageById", "getChannel", "getChannelMemberUserIds"}}
    \cup {[op |-> "createNotification", call |-> n] : n \in 1..2}

\* the body of the inner `try` under a failure: the rows created before the
\* throw (each followed by its broadcastToUser) and whether the block threw
FanoutAttempt(message, userId, failure) ==
    LET full == FanoutRows(message, userId)
        lookupThrows ==
            IF ~Falsy(message.directMessageId)
            THEN failure.op = "getDirectMessageById"
            ELSE IF ~Falsy(message.channelId)
            THEN \/ failure.op = "getChannel"
                 \/ /\ failure.op = "getChannelMemberUserIds"
                    /\ message.channelId \in ChannelIds
                    /\ ChannelType[message.channelId] = "private"
            ELSE FALSE
        insertThrows == failure.op = "createNotification" /\ failure.call <= Len(full)
    IN IF lookupThrows THEN [rows |-> <<>>, threw |-> TRUE]
       ELSE IF insertThrows THEN [rows |-> SubSeq(full, 1, failure.call - 1), threw |-> TRUE]
       ELSE [rows |-> full, threw |-> FALSE]

\* a handler without the inner try/catch: the throw reaches the outer catch
RespondFanoutUncaught(message, threw) ==
    IF threw THEN [status |-> 400, message |-> "Failed to create message"]
    ELSE [status |-> 200, body |-> message]

\* the response after the inner try/catch: `res.json(message)` is reached
\* whether or not the fan-out threw
RespondAfterFanout(message, threw) == [status |-> 200, body |-> message]

\* ------------------------------------------------------------------ threads

\* a root resolution that takes the id it is given for the root
ResolveRootNoWalk(store, currentId, visited) == currentId

\* the first loop of getThreadTree: the id the upward walk stops at
RECURSIVE ResolveRoot(_, _, _)
ResolveRoot(store, currentId, visited) ==
    IF currentId \in visited THEN currentId
    ELSE IF ~HasMessage(store, currentId) THEN currentId
    ELSE IF Falsy(GetMessage(store, currentId).parentMessageId) THEN currentId
    ELSE ResolveRoot(store, GetMessage(store, currentId).parentMessageId,
                     visited \cup {currentId})

\* a ThreadNode object on the heap: its message and the heap indices of the
\* nodes pushed to its replies array
NewNode(msg) == [message |-> msg, replies |-> <<>>]

\* the `for (const row of childRows)` loop: every row gets a new node, which
\* is registered in `nodes` and pushed to the replies of its parent's node
RECURSIVE AttachRows(_, _, _, _)
AttachRows(objs, nodes, rows, nextLevelIds) ==
    IF rows = <<>>
    THEN [objs |-> objs, nodes |-> nodes, nextLevelIds |-> nextLevelIds]
    ELSE LET msg == Head(rows)
             k == Len(objs) + 1
             nodes1 == (msg.id :> k) @@ nodes
             objs1 == Append(objs, NewNode(msg))
             objs2 == IF ~Falsy(msg.parentMessageId) /\ msg.parentMessageId \in DOMAIN nodes1
                      THEN [objs1 EXCEPT ![nodes1[msg.parentMessageId]].replies = Append(@, k)]
                      ELSE objs1
         IN AttachRows(objs2, nodes1, Tail(rows), Append(nextLevelIds, msg.id))

\* the rows with parent_message_id IN (ids), in table order
ChildRows(store, ids) == SelectSeq(store, LAMBDA m : Includes(ids, m.parentMessageId))

\* a level loop that counts edges: it expands one level more
RECURSIVE ExpandLevelsDeep(_, _, _, _, _, _)
ExpandLevelsDeep(store, objs, nodes, currentLevelIds, depth, maxDepth) ==
    IF Len(currentLevelIds) > 0 /\ depth <= maxDepth
    THEN LET r == AttachRows(objs, nodes, ChildRows(store, currentLevelIds), <<>>)
         IN ExpandLevelsDeep(store, r.objs, r.nodes, r.nextLevelIds, depth + 1, maxDepth)
    ELSE objs

\* a level loop that stops one level early
RECURSIVE ExpandLevelsShallow(_, _, _, _, _, _)
ExpandLevelsShallow(store, objs, nodes, currentLevelIds, depth, maxDepth) ==
    IF Len(currentLevelIds) > 0 /\ depth < maxDepth - 1
    THEN LET r == AttachRows(objs, nodes, ChildRows(store, currentLevelIds), <<>>)
         IN ExpandLevelsShallow(store, r.objs, r.nodes, r.nextLevelIds, depth + 1, maxDepth)
    ELSE objs

\* the `while (currentLevelIds.length > 0 && depth < maxDepth)` loop
RECURSIVE ExpandLevels(_, _, _, _, _, _)
ExpandLevels(store, objs, nodes, currentLevelIds, depth, maxDepth) ==
    IF Len(currentLevelIds) > 0 /\ depth < maxDepth
    THEN LET r == AttachRows(objs, nodes, ChildRows(store, currentLevelIds), <<>>)
         IN ExpandLevels(store, r.objs, r.nodes, r.nextLevelIds, depth + 1, maxDepth)
    ELSE objs

\* the nested value of the node at heap index k, as res.json serialises it
RECURSIVE Unfold(_, _)
Unfold(objs, k) ==
    [message |-> objs[k].message,
     sender |-> objs[k].message.senderId,
     replies |-> [i \in 1..Len(objs[k].replies) |-> Unfold(objs, objs[k].replies[i])]]

NotFound == [found |-> FALSE]

\* DatabaseStorage.getThreadTree
GetThreadTree(store, rootMessageId, maxDepth) ==
    LET rootId == ResolveRoot(store, rootMessageId, {})
    IN IF ~HasMessage(store, rootId) THEN NotFound
       ELSE [found |-> TRUE,
             root |-> Unfold(ExpandLevels(store, <<NewNode(GetMessage(store, rootId))>>,
                                          (rootId :> 1), <<rootId>>, 1, maxDepth), 1)]

\* ------------------------------------------------------------------ actions

Init ==
    /\ clients = <<>>
    /\ readyState = [s \in Sockets |-> "NONE"]
    /\ messages = <<>>
    /\ notifications = <<>>
    /\ lastOp = [op |-> "init"]
    /\ sent = <<>>
    /\ inflight = NoRequests
    /\ invites = <<>>
    /\ workspaceMembers = <<>>

\* wss.on('connection'): a client opens a socket; the handlers are installed
Connect(s) ==
    /\ readyState[s] = "NONE"
    /\ readyState' = [readyState EXCEPT ![s] = "OPEN"]
    /\ lastOp' = [op |-> "connection", ws |-> s]
    /\ sent' = <<>>
    /\ UNCHANGED <<inflight, invites, workspaceMembers, clients, messages, notifications>>

\* the transport starts closing a socket: readyState leaves OPEN before the
\* 'close' event is emitted
StartClosing(s) ==
    /\ readyState[s] = "OPEN"
    /\ readyState' = [readyState EXCEPT ![s] = "CLOSING"]
    /\ lastOp' = [op |-> "closing", ws |-> s]
    /\ sent' = <<>>
    /\ UNCHANGED <<inflight, invites, workspaceMembers, clients, messages, notifications>>

\* ws.on('message') with a join frame
Join(s, u, ch) ==
    /\ readyState[s] \in {"OPEN", "CLOSING"}
    /\ clients' = JoinHandler(clients, s, u, ch)
    /\ lastOp' = [op |-> "join", ws |-> s, userId |-> u, channels |-> ch,
                  replaced |-> MapLookup(clients, u)]
    /\ sent' = <<>>
    /\ UNCHANGED <<inflight, invites, workspaceMembers, readyState, messages, notifications>>

\* ws.on('close')
Close(s) ==
    /\ readyState[s] \in {"OPEN", "CLOSING"}
    /\ readyState' = [readyState EXCEPT ![s] = "CLOSED"]
    /\ clients' = CloseHandler(clients, s)
    /\ lastOp' = [op |-> "close", ws |-> s]
    /\ sent' = <<>>
    /\ UNCHANGED <<inflight, invites, workspaceMembers, messages, notifications>>

\* a call of broadcastToChannel by one of its callers
BroadcastToChannelCall(room, type, data) ==
    /\ sent' = BroadcastToChannel(clients, readyState, room, type, data)
    /\ lastOp' = [op |-> "broadcastToChannel", channelId |-> room, type |-> type, data |-> data]
    /\ UNCHANGED <<inflight, invites, workspaceMembers, clients, readyState, messages, notifications>>

\* a call of broadcastToUser by one of its callers
BroadcastToUserCall(u, type, data) ==
    /\ sent' = BroadcastToUser(clients, readyState, u, type, data)
    /\ lastOp' = [op |-> "broadcastToUser", userId |-> u, type |-> type, data |-> data]
    /\ UNCHANGED <<inflight, invites, workspaceMembers, clients, readyState, messages, notifications>>

\* a call of broadcastReactionUpdate by the reaction routes
BroadcastReactionUpdateCall(messageId) ==
    /\ sent' = BroadcastReactionUpdate(clients, readyState, messageId)
    /\ lastOp' = [op |-> "broadcastReactionUpdate", messageId |-> messageId]
    /\ UNCHANGED <<inflight, invites, workspaceMembers, clients, readyState, messages, notifications>>

\* ws.on('message') with a typing frame
Typing(s, userId, channelId, isTyping) ==
    /\ readyState[s] \in {"OPEN", "CLOSING"}
    /\ sent' = TypingHandler(clients, readyState, TypingFrame(userId, channelId, isTyping))
    /\ lastOp' = [op |-> "typing", ws |-> s, message |-> TypingFrame(userId, channelId, isTyping)]
    /\ UNCHANGED <<inflight, invites, workspaceMembers, clients, readyState, messages, notifications>>

\* POST /api/messages by session user userId, one request run to completion
PostMessage(userId, parentMessageId, channelId, directMessageId) ==
    \E routing \in {ValidateRouting(messages, parentMessageId, channelId, directMessageId)} :
    LET request == [userId |-> userId, parentMessageId |-> parentMessageId,
                    channelId |-> channelId, directMessageId |-> directMessageId]
    IN IF ~routing.ok
       THEN /\ lastOp' = [op |-> "postMessage", request |-> request,
                          status |-> 400, message |-> routing.message]
            /\ sent' = <<>>
            /\ UNCHANGED <<inflight, invites, workspaceMembers, clients, readyState, messages, notifications>>
       ELSE /\ Len(messages) < MaxMsgs
            /\ \E message \in {NewMessage(messages, userId, parentMessageId, routing)} :
               \E rows \in {FanoutRows(message, userId)} :
               /\ messages' = Append(messages, message)
               /\ notifications' = notifications \o rows
               /\ sent' = BroadcastToChannel(clients, readyState,
                                             OrElse(message.channelId, message.directMessageId),
                                             "message", message)
                           \o FanoutSends(clients, readyState, rows)
               /\ lastOp' = [op |-> "postMessage", request |-> request,
                             status |-> 200, body |-> message]
               /\ UNCHANGED <<inflight, invites, workspaceMembers, clients, readyState>>

\* POST /api/messages with a storage call of the fan-out that may throw
PostMessageWithFailure(userId, parentMessageId, channelId, directMessageId) ==
    \E routing \in {ValidateRouting(messages, parentMessageId, channelId, directMessageId)} :
    LET request == [userId |-> userId, parentMessageId |-> parentMessageId,
                    channelId |-> channelId, directMessageId |-> directMessageId]
    IN IF ~routing.ok
       THEN /\ lastOp' = [op |-> "postMessage", request |-> request, threw |-> FALSE,
                          status |-> 400, message |-> routing.message]
            /\ sent' = <<>>
            /\ UNCHANGED <<inflight, invites, workspaceMembers, clients, readyState, messages, notifications>>
       ELSE /\ Len(messages) < MaxFanoutMsgs
            /\ \E message \in {NewMessage(messages, userId, parentMessageId, routing)} :
               \E failure \in FanoutFailures :
               \E attempt \in {FanoutAttempt(message, userId, failure)} :
               /\ messages' = Append(messages, message)
               /\ notifications' = notifications \o attempt.rows
               /\ sent' = BroadcastToChannel(clients, readyState,
                                             OrElse(message.channelId, message.directMessageId),
                                             "message", message)
                           \o FanoutSends(clients, readyState, attempt.rows)
               /\ lastOp' = [op |-> "postMessage", request |-> request, threw |-> attempt.threw]
                             @@ RespondAfterFanout(message, attempt.threw)
               /\ UNCHANGED <<inflight, invites, workspaceMembers, clients, readyState>>

PostMessageWithFailureRequest ==
    \E userId \in Posters, parentMessageId \in FanoutRequestMsgIds \cup {Null},
       channelId \in ChannelIds \cup {Null}, directMessageId \in DmIds \cup {Null} :
        PostMessageWithFailure(userId, parentMessageId, channelId, directMessageId)

\* a call of storage.getThreadTree (GET /api/threads/:messageId passes 3)
GetThreadTreeCall(messageId, maxDepth) ==
    /\ lastOp' = [op |-> "getThreadTree", messageId |-> messageId, maxDepth |-> maxDepth,
                  result |-> GetThreadTree(messages, messageId, maxDepth)]
    /\ sent' = <<>>
    /\ UNCHANGED <<inflight, invites, workspaceMembers, clients, readyState, messages, notifications>>

GetThreadTreeRequest ==
    \E i \in 1..MaxThreadMsgs, maxDepth \in 1..MaxDepthArg :
        GetThreadTreeCall(MsgIds[i], maxDepth)

PostMessageRequest ==
    \E userId \in Posters, parentMessageId \in RequestMsgIds \cup {Null},
       channelId \in ChannelIds \cup {Null}, directMessageId \in DmIds \cup {Null} :
        PostMessage(userId, parentMessageId, channelId, directMessageId)

Next ==
    \/ \E s \in Sockets : Connect(s)
    \/ \E s \in Sockets : StartClosing(s)
    \/ \E s \in Sockets, u \in Users, ch \in JoinChannelInputs : Join(s, u, ch)
    \/ \E s \in Sockets : Close(s)
    \/ \E room \in RoomIds \cup {Null, ""}, type \in {"message"}, data \in Payloads :
          BroadcastToChannelCall(room, type, data)
    \/ \E u \in Users, data \in Payloads : BroadcastToUserCall(u, "notification", data)

Spec == Init /\ [][Next]_vars

\* ---------------------------------------------------- message specification

\* registries the join handler builds from an empty Map
RECURSIVE RunJoins(_, _)
RunJoins(map, joins) ==
    IF joins = <<>> THEN map
    ELSE RunJoins(JoinHandler(map, Head(joins).ws, Head(joins).userId, Head(joins).channels),
                  Tail(joins))

JoinFrame(ws, userId, arr) == [ws |-> ws, userId |-> userId, channels |-> ChannelsField(arr)]

\* live servers the message requests arrive at: the joins received so far and
\* the sockets that have started closing
LiveServers ==
    {[joins |-> <<JoinFrame("s1", "A", <<"general">>), JoinFrame("s2", "C", <<"priv", "dm1">>)>>,
      closing |-> {}],
     [joins |-> <<JoinFrame("s1", "A", <<"priv", "dm1">>), JoinFrame("s2", "C", <<"priv", "dm1">>)>>,
      closing |-> {"s2"}]}

InitMsg ==
    /\ \E srv \in LiveServers :
          /\ clients = RunJoins(<<>>, srv.joins)
          /\ readyState = [s \in Sockets |-> IF s \in srv.closing THEN "CLOSING" ELSE "OPEN"]
    /\ messages = <<>>
    /\ notifications = <<>>
    /\ lastOp = [op |-> "init"]
    /\ sent = <<>>
    /\ inflight = NoRequests
    /\ invites = <<>>
    /\ workspaceMembers = <<>>

NextMsg == PostMessageRequest

SpecMsg == InitMsg /\ [][NextMsg]_vars

\* ---------------------------------------------- fan-out failure specification

\* the live server the requests arrive at: a subscriber of the private channel
\* and the DM, and a subscriber of the public channel
FanoutServer ==
    [joins |-> <<JoinFrame("s1", "A", <<"priv", "dm1">>), JoinFrame("s2", "C", <<"general">>)>>,
     closing |-> {}]

InitFanout ==
    /\ clients = RunJoins(<<>>, FanoutServer.joins)
    /\ readyState = [s \in Sockets |-> IF s \in FanoutServer.closing THEN "CLOSING" ELSE "OPEN"]
    /\ messages = <<>>
    /\ notifications = <<>>
    /\ lastOp = [op |-> "init"]
    /\ sent = <<>>
    /\ inflight = NoRequests
    /\ invites = <<>>
    /\ workspaceMembers = <<>>

NextFanout == PostMessageWithFailureRequest

SpecFanout == InitFanout /\ [][NextFanout]_vars

\* ------------------------------------------------- message table specification

\* the messages table under requests handled one at a time, on a server
\* without connected clients
SpecCreate == Init /\ [][NextMsg]_vars

\* ----------------------------------------------------- thread specification

\* insert-only tables of n rows: every reply names an earlier row as its
\* parent (p[i] = 0 for a root) and has its parent's routing
ParentChoices(n) == {p \in [1..n -> 0..n] : \A i \in 1..n : p[i] < i}

ThreadStore(n, p) ==
    [i \in 1..n |->
        [id |-> MsgIds[i],
         parentMessageId |-> IF p[i] = 0 THEN Null ELSE MsgIds[p[i]],
         channelId |-> "general",
         directMessageId |-> Null,
         senderId |-> IF i % 2 = 1 THEN "B" ELSE "C"]]

ThreadStores == UNION {{ThreadStore(n, p) : p \in ParentChoices(n)} : n \in 0..MaxThreadMsgs}

InitThread ==
    /\ clients = <<>>
    /\ readyState = [s \in Sockets |-> "NONE"]
    /\ messages \in ThreadStores
    /\ notifications = <<>>
    /\ lastOp = [op |-> "init"]
    /\ sent = <<>>
    /\ inflight = NoRequests
    /\ invites = <<>>
    /\ workspaceMembers = <<>>

NextThread == GetThreadTreeRequest

SpecThread == InitThread /\ [][NextThread]_vars

\* ------------------------------------------------------ relay specification

\* the registry under connections, joins and closes, with the typing relay and
\* the reaction broadcast
NextRelay ==
    \/ \E s \in Sockets : Connect(s)
    \/ \E s \in Sockets : StartClosing(s)
    \/ \E s \in Sockets, u \in Users, ch \in JoinChannelInputs : Join(s, u, ch)
    \/ \E s \in Sockets : Close(s)
    \/ \E s \in Sockets, m \in TypingInputs : Typing(s, m.userId, m.channelId, m.isTyping)
    \/ \E messageId \in ReactionMsgIds : BroadcastReactionUpdateCall(messageId)

SpecRelay == Init /\ [][NextRelay]_vars

\* -------------------------------------------------- reconnect specification

\* a user whose client opens a second socket: the first socket has joined and
\* sends no other join, the second is connected and has not joined yet
ReconnectingUser == "A"
OldSocket == "s1"
NewSocket == "s2"

InitReconnect ==
    /\ \E ch \in JoinChannelInputs :
          /\ clients = JoinHandler(<<>>, OldSocket, ReconnectingUser, ch)
          /\ lastOp = [op |-> "join", ws |-> OldSocket, userId |-> ReconnectingUser,
                       channels |-> ch, replaced |-> <<>>]
    /\ readyState = [s \in Sockets |-> "OPEN"]
    /\ messages = <<>>
    /\ notifications = <<>>
    /\ sent = <<>>
    /\ inflight = NoRequests
    /\ invites = <<>>
    /\ workspaceMembers = <<>>

NextReconnect ==
    \/ \E u \in Users, ch \in JoinChannelInputs : Join(NewSocket, u, ch)
    \/ \E s \in Sockets : StartClosing(s)
    \/ \E s \in Sockets : Close(s)
    \/ \E room \in RoomIds, data \in Payloads : BroadcastToChannelCall(room, "message", data)
    \/ \E u \in Users, data \in Payloads : BroadcastToUserCall(u, "notification", data)
    \/ \E messageId \in ReactionMsgIds : BroadcastReactionUpdateCall(messageId)
    \/ \E s \in Sockets, m \in TypingInputs : Typing(s, m.userId, m.channelId, m.isTyping)

SpecReconnect == InitReconnect /\ [][NextReconnect]_vars

\* ---------------------------------------------------- ordering specification

\* the server runs a sequence of broadcast calls; `sent` keeps the ws.send
\* calls of the whole sequence and `lastOp` the calls made so far
MaxCalls == 3

\* the payload of the n-th call of the sequence
CallPayloads == <<"p1", "p2", "p3", "p4", "p5">>

\* a ws.send that puts its frame ahead of the frames sent before
QueueSendsAhead(log, sends) == sends \o log

\* ws.send queues a frame behind the frames the earlier calls sent
QueueSends(log, sends) == log \o sends

\* registries of two joins, among them two users on one socket and one user
\* on two sockets in turn
OrderJoins ==
    {JoinFrame(s, u, arr) :
        s \in Sockets, u \in {"A", "B"}, arr \in {<<"general">>, <<"priv", "dm1">>}}

OrderServers ==
    {[joins |-> <<a, b>>, closing |-> c] : a \in OrderJoins, b \in OrderJoins, c \in {{}, {"s2"}}}

InitOrder ==
    /\ \E srv \in OrderServers :
          /\ clients = RunJoins(<<>>, srv.joins)
          /\ readyState = [s \in Sockets |-> IF s \in srv.closing THEN "CLOSING" ELSE "OPEN"]
    /\ messages = <<>>
    /\ notifications = <<>>
    /\ lastOp = [op |-> "calls", calls |-> <<>>]
    /\ sent = <<>>
    /\ inflight = NoRequests
    /\ invites = <<>>
    /\ workspaceMembers = <<>>

\* the next call of the sequence is broadcastToChannel(room, 'message', data)
NextChannelCall(room) ==
    /\ Len(lastOp.calls) < MaxCalls
    /\ \E data \in {CallPayloads[Len(lastOp.calls) + 1]} :
          /\ sent' = QueueSends(sent, BroadcastToChannel(clients, readyState, room, "message", data))
          /\ lastOp' = [op |-> "calls",
                        calls |-> Append(lastOp.calls,
                                         [fn |-> "broadcastToChannel", target |-> room,
                                          type |-> "message", data |-> data])]
    /\ UNCHANGED <<inflight, invites, workspaceMembers, clients, readyState, messages, notifications>>

\* the next call of the sequence is broadcastToUser(u, 'notification', data)
NextUserCall(u) ==
    /\ Len(lastOp.calls) < MaxCalls
    /\ \E data \in {CallPayloads[Len(lastOp.calls) + 1]} :
          /\ sent' = QueueSends(sent, BroadcastToUser(clients, readyState, u, "notification", data))
          /\ lastOp' = [op |-> "calls",
                        calls |-> Append(lastOp.calls,
                                         [fn |-> "broadcastToUser", target |-> u,
                                          type |-> "notification", data |-> data])]
    /\ UNCHANGED <<inflight, invites, workspaceMembers, clients, readyState, messages, notifications>>

NextOrder ==
    \/ \E room \in RoomIds \cup {Null} : NextChannelCall(room)
    \/ \E u \in {"A", "B"} : NextUserCall(u)

SpecOrder == InitOrder /\ [][NextOrder]_vars

\* -------------------------------------------------------- walk specification

\* the two parent walks run one loop iteration per step, on tables with any
\* parent graph; `lastOp` holds the local variables of the walk in progress
MaxGraphMsgs == 3

\* tables of n rows whose parent pointers name any row, the row itself and a
\* missing row included (p[i] = 0: no parent, p[i] = n + 1: a missing row)
GraphStore(n, p) ==
    [i \in 1..n |->
        [id |-> MsgIds[i],
         parentMessageId |-> IF p[i] = 0 THEN Null ELSE MsgIds[p[i]],
         channelId |-> "general",
         directMessageId |-> Null,
         senderId |-> "B"]]

GraphStores ==
    UNION {{GraphStore(n, p) : p \in [1..n -> 0..(n + 1)]} : n \in 0..MaxGraphMsgs}

\* ids a walk is started with: those of the rows and a missing one
WalkIds == {MsgIds[i] : i \in 1..(MaxGraphMsgs + 1)}

\* the locals of the depth check before its loop
DepthWalkStart(parentMessageId) ==
    [op |-> "depthWalk", request |-> parentMessageId, currentId |-> parentMessageId,
     visited |-> {}, parentDepth |-> 0, lookups |-> 0]

\* the loop of the depth check has ended
DepthWalkEnd(st) == [st EXCEPT !.op = "depthWalkDone"]

\* a loop iteration of the depth check without the `parentDepth >= 3` break
DepthWalkIterationNoCap(store, st) ==
    IF Falsy(st.currentId) THEN DepthWalkEnd(st)
    ELSE IF st.currentId \in st.visited THEN DepthWalkEnd(st)
    ELSE LET looked == [st EXCEPT !.visited = @ \cup {st.currentId}, !.lookups = @ + 1]
         IN IF ~HasMessage(store, st.currentId) THEN DepthWalkEnd(looked)
            ELSE [looked EXCEPT
                     !.parentDepth = @ + 1,
                     !.currentId = Coalesce(GetMessage(store, st.currentId).parentMessageId, Null)]

\* one iteration of `while (currentId)` in POST /api/messages (the loop test
\* included): the locals after it
DepthWalkIteration(store, st) ==
    IF Falsy(st.currentId) THEN DepthWalkEnd(st)
    ELSE IF st.currentId \in st.visited THEN DepthWalkEnd(st)
    ELSE LET looked == [st EXCEPT !.visited = @ \cup {st.currentId}, !.lookups = @ + 1]
         IN IF ~HasMessage(store, st.currentId) THEN DepthWalkEnd(looked)
            ELSE LET moved == [looked EXCEPT
                                  !.parentDepth = @ + 1,
                                  !.currentId = Coalesce(GetMessage(store, st.currentId).parentMessageId,
                                                         Null)]
                 IN IF moved.parentDepth >= DepthLimit THEN DepthWalkEnd(moved) ELSE moved

\* the locals of getThreadTree before its first loop
RootWalkStart(rootMessageId, maxDepth) ==
    [op |-> "rootWalk", request |-> rootMessageId, maxDepth |-> maxDepth,
     currentId |-> rootMessageId, visited |-> {}, iterations |-> 0]

\* the root fetch after the first loop: undefined without a row, otherwise the
\* locals before the level loop
FetchRoot(store, st) ==
    IF ~HasMessage(store, st.currentId)
    THEN [op |-> "threadTreeDone", request |-> st.request, maxDepth |-> st.maxDepth,
          iterations |-> st.iterations, depth |-> 0, result |-> NotFound]
    ELSE [op |-> "expand", request |-> st.request, maxDepth |-> st.maxDepth,
          iterations |-> st.iterations,
          objs |-> <<NewNode(GetMessage(store, st.currentId))>>,
          nodes |-> (st.currentId :> 1),
          currentLevelIds |-> <<st.currentId>>,
          depth |-> 1]

\* one iteration of `while (true)` in getThreadTree
RootWalkIteration(store, st) ==
    IF st.currentId \in st.visited THEN FetchRoot(store, st)
    ELSE LET looked == [st EXCEPT !.visited = @ \cup {st.currentId}, !.iterations = @ + 1]
         IN IF \/ ~HasMessage(store, st.currentId)
               \/ Falsy(GetMessage(store, st.currentId).parentMessageId)
            THEN FetchRoot(store, looked)
            ELSE [looked EXCEPT !.currentId = GetMessage(store, st.currentId).parentMessageId]

\* one iteration of the level loop of getThreadTree (the loop test included)
ExpandIteration(store, st) ==
    IF Len(st.currentLevelIds) > 0 /\ st.depth < st.maxDepth
    THEN LET r == AttachRows(st.objs, st.nodes, ChildRows(store, st.currentLevelIds), <<>>)
         IN [st EXCEPT !.objs = r.objs, !.nodes = r.nodes,
                       !.currentLevelIds = r.nextLevelIds, !.depth = @ + 1]
    ELSE [op |-> "threadTreeDone", request |-> st.request, maxDepth |-> st.maxDepth,
          iterations |-> st.iterations, depth |-> st.depth,
          result |-> [found |-> TRUE, root |-> Unfold(st.objs, 1)]]

InitWalk ==
    /\ clients = <<>>
    /\ readyState = [s \in Sockets |-> "NONE"]
    /\ messages \in GraphStores
    /\ notifications = <<>>
    /\ lastOp = [op |-> "idle"]
    /\ sent = <<>>
    /\ inflight = NoRequests
    /\ invites = <<>>
    /\ workspaceMembers = <<>>

\* POST /api/messages with a parentMessageId reaches its depth check
StartDepthWalk(parentMessageId) ==
    /\ lastOp.op = "idle"
    /\ lastOp' = DepthWalkStart(parentMessageId)
    /\ UNCHANGED <<inflight, invites, workspaceMembers, clients, readyState, messages, notifications, sent>>

DepthWalkStep ==
    /\ lastOp.op = "depthWalk"
    /\ lastOp' = DepthWalkIteration(messages, lastOp)
    /\ UNCHANGED <<inflight, invites, workspaceMembers, clients, readyState, messages, notifications, sent>>

\* getThreadTree(rootMessageId, maxDepth) is called
StartThreadTree(rootMessageId, maxDepth) ==
    /\ lastOp.op = "idle"
    /\ lastOp' = RootWalkStart(rootMessageId, maxDepth)
    /\ UNCHANGED <<inflight, invites, workspaceMembers, clients, readyState, messages, notifications, sent>>

RootWalkStep ==
    /\ lastOp.op = "rootWalk"
    /\ lastOp' = RootWalkIteration(messages, lastOp)
    /\ UNCHANGED <<inflight, invites, workspaceMembers, clients, readyState, messages, notifications, sent>>

ExpandStep ==
    /\ lastOp.op = "expand"
    /\ lastOp' = ExpandIteration(messages, lastOp)
    /\ UNCHANGED <<inflight, invites, workspaceMembers, clients, readyState, messages, notifications, sent>>

NextWalk ==
    \/ \E id \in WalkIds : StartDepthWalk(id)
    \/ DepthWalkStep
    \/ \E id \in WalkIds, maxDepth \in 1..MaxDepthArg : StartThreadTree(id, maxDepth)
    \/ RootWalkStep
    \/ ExpandStep

\* a loop that can run an iteration does run it
SpecWalk ==
    /\ InitWalk
    /\ [][NextWalk]_vars
    /\ WF_vars(DepthWalkStep)
    /\ WF_vars(RootWalkStep)
    /\ WF_vars(ExpandStep)

\* ------------------------------------------- concurrent request specification

\* rows the messages table receives while requests run concurrently
MaxRaceMsgs == 4

\* rows the messages table receives while creations and deletions run
\* concurrently
MaxDeleteRaceMsgs == 2

\* an id the storage never generates (ids are gen_random_uuid() values: a
\* request can name the id of a row that was created, or an id of no row, but
\* not the id a later insert will receive)
MissingMsgId == "m0"

\* the user whose requests create and delete messages, and another user
RaceAuthor == "B"
RaceUsers == {"B", "C"}

\* ids a request can name in the state it arrives in
KnownMsgIds == {lastOp.inserted[i] : i \in DOMAIN lastOp.inserted} \cup {MissingMsgId}

\* bodies of POST /api/messages: a root for the public channel, a root without
\* routing, and replies
RaceRequests ==
    {[userId |-> RaceAuthor, parentMessageId |-> Null, channelId |-> c, directMessageId |-> Null] :
        c \in {"general", Null}}
    \cup {[userId |-> RaceAuthor, parentMessageId |-> p, channelId |-> Null, directMessageId |-> Null] :
             p \in KnownMsgIds}

\* the handler has responded: its callback is over
Responded == Idle

\* a depth test that lets a parent chain of three rows pass
DepthLimitReachedLate(parentDepth) == parentDepth > DepthLimit

\* `if (parentDepth >= 3)` after the loop of the depth check
DepthLimitReached(parentDepth) == parentDepth >= DepthLimit

\* the row createMessage returns when n rows were created before it
CreatedRow(n, userId, parentMessageId, routing) ==
    [NewMessage(<<>>, userId, parentMessageId, routing) EXCEPT !.id = MsgIds[n + 1]]

\* POST /api/messages from its start to its first await: a reply reaches the
\* first getMessage of the depth check, a root is validated and reaches
\* createMessage or is rejected
PostStart(request) ==
    IF ~Falsy(request.parentMessageId)
    THEN [pc |-> "walk", request |-> request, walk |-> DepthWalkStart(request.parentMessageId)]
    ELSE LET routing == ValidateRouting(<<>>, request.parentMessageId,
                                        request.channelId, request.directMessageId)
         IN IF routing.ok
            THEN [pc |-> "insert", request |-> request, routing |-> routing]
            ELSE [pc |-> "responded", status |-> 400]

\* one `await storage.getMessage(currentId)` of the depth check and the code
\* up to the next await
PostAfterWalkLookup(store, st) ==
    LET walk == DepthWalkIteration(store, st.walk)
    IN IF walk.op # "depthWalkDone" THEN [st EXCEPT !.walk = walk]
       ELSE IF DepthLimitReached(walk.parentDepth)
            THEN [pc |-> "responded", status |-> 400]
            ELSE [pc |-> "parent", request |-> st.request]

\* `await storage.getMessage(messageData.parentMessageId)` and the code up to
\* createMessage
PostAfterParentLookup(store, st) ==
    IF ~HasMessage(store, st.request.parentMessageId)
    THEN [pc |-> "responded", status |-> 400]
    ELSE [pc |-> "insert", request |-> st.request,
          routing |-> Resolved(Coalesce(GetMessage(store, st.request.parentMessageId).channelId, Null),
                               Coalesce(GetMessage(store, st.request.parentMessageId).directMessageId,
                                        Null))]

\* DELETE /api/messages/:messageId after `await storage.getMessage(messageId)`
DeleteAfterLookup(store, st) ==
    IF ~HasMessage(store, st.messageId) THEN [pc |-> "responded", status |-> 404]
    ELSE IF GetMessage(store, st.messageId).senderId # st.userId
    THEN [pc |-> "responded", status |-> 403]
    ELSE [pc |-> "delete", messageId |-> st.messageId, userId |-> st.userId,
          msg |-> GetMessage(store, st.messageId)]

\* db.delete(messages).where(eq(messages.id, messageId))
DeleteRow(store, messageId) == SelectSeq(store, LAMBDA m : m.id # messageId)

\* the handler's state after a step, and the status of the response it sent
AfterStep(st) == IF st.pc = "responded" THEN Responded ELSE st
StatusAfter(st) == IF st.pc = "responded" THEN st.status ELSE lastOp.status

\* requests that have not reached their insert yet
PendingInserts == {r \in Handlers : inflight[r].pc \in {"walk", "parent", "insert"}}

RaceServer == [joins |-> <<JoinFrame("s1", "A", <<"general">>)>>, closing |-> {}]

InitRace ==
    /\ clients = RunJoins(<<>>, RaceServer.joins)
    /\ readyState = [s \in Sockets |-> IF s = "s1" THEN "OPEN" ELSE "NONE"]
    /\ messages = <<>>
    /\ notifications = <<>>
    /\ lastOp = [op |-> "requests", inserted |-> <<>>, published |-> <<>>, status |-> 0]
    /\ sent = <<>>
    /\ inflight = NoRequests
    /\ invites = <<>>
    /\ workspaceMembers = <<>>

\* a POST /api/messages request arrives and runs to its first await
StartPost(r, request, capacity) ==
    /\ inflight[r] = Idle
    /\ Len(lastOp.inserted) + Cardinality(PendingInserts) < capacity
    /\ \E st \in {PostStart(request)} :
          /\ inflight' = [inflight EXCEPT ![r] = AfterStep(st)]
          /\ lastOp' = [lastOp EXCEPT !.status = StatusAfter(st)]
    /\ UNCHANGED <<invites, workspaceMembers, clients, readyState, messages, notifications, sent>>

\* a getMessage of the depth check resolves
PostWalkStep(r) ==
    /\ inflight[r].pc = "walk"
    /\ \E st \in {PostAfterWalkLookup(messages, inflight[r])} :
          /\ inflight' = [inflight EXCEPT ![r] = AfterStep(st)]
          /\ lastOp' = [lastOp EXCEPT !.status = StatusAfter(st)]
    /\ UNCHANGED <<invites, workspaceMembers, clients, readyState, messages, notifications, sent>>

\* the getMessage of the immediate parent resolves
PostParentStep(r) ==
    /\ inflight[r].pc = "parent"
    /\ \E st \in {PostAfterParentLookup(messages, inflight[r])} :
          /\ inflight' = [inflight EXCEPT ![r] = AfterStep(st)]
          /\ lastOp' = [lastOp EXCEPT !.status = StatusAfter(st)]
    /\ UNCHANGED <<invites, workspaceMembers, clients, readyState, messages, notifications, sent>>

\* createMessage inserts the row; the handler awaits storage.getUser
PostInsertStep(r) ==
    /\ inflight[r].pc = "insert"
    /\ \E message \in {CreatedRow(Len(lastOp.inserted), inflight[r].request.userId,
                                  inflight[r].request.parentMessageId, inflight[r].routing)} :
          /\ messages' = Append(messages, message)
          /\ inflight' = [inflight EXCEPT ![r] = [pc |-> "sender", request |-> inflight[r].request,
                                                  message |-> message]]
          /\ lastOp' = [lastOp EXCEPT !.inserted = Append(@, message.id)]
    /\ UNCHANGED <<invites, workspaceMembers, clients, readyState, notifications, sent>>

\* getUser resolves: broadcastToChannel runs, the handler awaits the first
\* lookup of the fan-out
PostSenderStep(r) ==
    /\ inflight[r].pc = "sender"
    /\ \E message \in {inflight[r].message} :
          /\ sent' = QueueSends(sent, BroadcastToChannel(clients, readyState,
                                          OrElse(message.channelId, message.directMessageId),
                                          "message", message))
          /\ inflight' = [inflight EXCEPT ![r] = [pc |-> "notify", request |-> inflight[r].request,
                                                  message |-> message]]
          /\ lastOp' = [lastOp EXCEPT !.published = Append(@, message.id)]
    /\ UNCHANGED <<invites, workspaceMembers, clients, readyState, messages, notifications>>

\* the fan-out runs and the message is the response
PostNotifyStep(r) ==
    /\ inflight[r].pc = "notify"
    /\ \E rows \in {FanoutRows(inflight[r].message, inflight[r].request.userId)} :
          /\ notifications' = notifications \o rows
          /\ sent' = QueueSends(sent, FanoutSends(clients, readyState, rows))
          /\ inflight' = [inflight EXCEPT ![r] = Responded]
          /\ lastOp' = [lastOp EXCEPT
                           !.status = RespondAfterFanout(inflight[r].message, FALSE).status]
    /\ UNCHANGED <<invites, workspaceMembers, clients, readyState, messages>>

\* a DELETE /api/messages/:messageId request arrives and awaits getMessage
StartDelete(r, messageId, userId) ==
    /\ inflight[r] = Idle
    /\ inflight' = [inflight EXCEPT ![r] = [pc |-> "lookup", messageId |-> messageId,
                                            userId |-> userId]]
    /\ UNCHANGED <<invites, workspaceMembers, clients, readyState, messages, notifications,
                   sent, lastOp>>

\* the getMessage of the DELETE handler resolves
DeleteLookupStep(r) ==
    /\ inflight[r].pc = "lookup"
    /\ \E st \in {DeleteAfterLookup(messages, inflight[r])} :
          /\ inflight' = [inflight EXCEPT ![r] = AfterStep(st)]
          /\ lastOp' = [lastOp EXCEPT !.status = StatusAfter(st)]
    /\ UNCHANGED <<invites, workspaceMembers, clients, readyState, messages, notifications, sent>>

\* the row is deleted, 'message.deleted' is broadcast, the handler responds
DeleteRowStep(r) ==
    /\ inflight[r].pc = "delete"
    /\ messages' = DeleteRow(messages, inflight[r].messageId)
    /\ sent' = QueueSends(sent, BroadcastToChannel(clients, readyState,
                                    OrElse(inflight[r].msg.channelId, inflight[r].msg.directMessageId),
                                    "message.deleted", [id |-> inflight[r].messageId]))
    /\ inflight' = [inflight EXCEPT ![r] = Responded]
    /\ lastOp' = [lastOp EXCEPT !.status = 200]
    /\ UNCHANGED <<invites, workspaceMembers, clients, readyState, notifications>>

\* the awaits of the message-creation requests in flight
PostSteps ==
    \/ \E r \in Handlers : PostWalkStep(r)
    \/ \E r \in Handlers : PostParentStep(r)
    \/ \E r \in Handlers : PostInsertStep(r)
    \/ \E r \in Handlers : PostSenderStep(r)
    \/ \E r \in Handlers : PostNotifyStep(r)

\* message-creation requests running concurrently, no deletion
NextRace ==
    \/ \E r \in Handlers, request \in RaceRequests : StartPost(r, request, MaxRaceMsgs)
    \/ PostSteps

SpecRace == InitRace /\ [][NextRace]_vars

\* message-creation and message-deletion requests running concurrently
NextRaceDelete ==
    \/ \E r \in Handlers, request \in RaceRequests : StartPost(r, request, MaxDeleteRaceMsgs)
    \/ PostSteps
    \/ \E r \in Handlers, messageId \in KnownMsgIds, userId \in RaceUsers :
          StartDelete(r, messageId, userId)
    \/ \E r \in Handlers : DeleteLookupStep(r)
    \/ \E r \in Handlers : DeleteRowStep(r)

SpecRaceDelete == InitRace /\ [][NextRaceDelete]_vars

\* ------------------------------------------------ sender lookup specification

\* outcomes of `await storage.getUser(userId)` after the insert
SenderLookups == {"resolves", "throws"}

\* the outer `catch` of POST /api/messages: the error's message with status 400
RespondError(text) == [status |-> 400, message |-> text]

\* POST /api/messages with a sender lookup that may throw: the throw is outside
\* the inner `try`, so the outer `catch` answers after the insert, before the
\* broadcast and the fan-out
PostMessageWithSenderLookup(userId, parentMessageId, channelId, directMessageId) ==
    \E routing \in {ValidateRouting(messages, parentMessageId, channelId, directMessageId)} :
    LET request == [userId |-> userId, parentMessageId |-> parentMessageId,
                    channelId |-> channelId, directMessageId |-> directMessageId]
    IN IF ~routing.ok
       THEN /\ lastOp' = [op |-> "postMessage", request |-> request, senderLookup |-> "none"]
                         @@ RespondError(routing.message)
            /\ sent' = <<>>
            /\ UNCHANGED <<inflight, invites, workspaceMembers, clients, readyState, messages, notifications>>
       ELSE /\ Len(messages) < MaxFanoutMsgs
            /\ \E message \in {NewMessage(messages, userId, parentMessageId, routing)} :
               \E lookup \in SenderLookups :
               /\ messages' = Append(messages, message)
               /\ IF lookup = "throws"
                  THEN /\ notifications' = notifications
                       /\ sent' = <<>>
                       /\ lastOp' = [op |-> "postMessage", request |-> request,
                                     senderLookup |-> lookup]
                                    @@ RespondError("getUser failed")
                  ELSE \E rows \in {FanoutRows(message, userId)} :
                       /\ notifications' = notifications \o rows
                       /\ sent' = BroadcastToChannel(clients, readyState,
                                                     OrElse(message.channelId, message.directMessageId),
                                                     "message", message)
                                   \o FanoutSends(clients, readyState, rows)
                       /\ lastOp' = [op |-> "postMessage", request |-> request,
                                     senderLookup |-> lookup]
                                    @@ RespondAfterFanout(message, FALSE)
               /\ UNCHANGED <<inflight, invites, workspaceMembers, clients, readyState>>

NextSender ==
    \E userId \in Posters, parentMessageId \in FanoutRequestMsgIds \cup {Null},
       channelId \in ChannelIds \cup {Null}, directMessageId \in DmIds \cup {Null} :
        PostMessageWithSenderLookup(userId, parentMessageId, channelId, directMessageId)

SpecSender == InitFanout /\ [][NextSender]_vars

\* --------------------------------------------------------- edit specification

\* JSON values of a request body field, with their `typeof`
Absent == [type |-> "undefined"]
Str(v) == [type |-> "string", value |-> v]
Bool(v) == [type |-> "boolean", flag |-> v]
JsonNull == [type |-> "object"]

\* values the body of PATCH /api/messages/:messageId carries for `content` and
\* for `isPinned`
ContentInputs == {Absent, Str("edited"), Str(""), JsonNull}
IsPinnedInputs == {Absent, Bool(TRUE), Bool(FALSE), Str("yes"), JsonNull}

\* a row of the messages table with the columns the edit route writes
EditableRow(id, senderId, channelId) ==
    [id |-> id, parentMessageId |-> Null, channelId |-> channelId, directMessageId |-> Null,
     senderId |-> senderId, content |-> "original", isPinned |-> FALSE]

\* the fields of `updates`: a field the body gives with another type is left out
Updates(content, isPinned) ==
    [content |-> IF content.type = "string" THEN content ELSE Absent,
     isPinned |-> IF isPinned.type = "boolean" THEN isPinned ELSE Absent]

\* Object.keys(updates).length === 0
NoUpdates(updates) == updates.content = Absent /\ updates.isPinned = Absent

\* db.update(messages).set({...updates}).where(eq(messages.id, messageId))
UpdateRow(store, messageId, updates) ==
    [i \in DOMAIN store |->
        IF store[i].id # messageId THEN store[i]
        ELSE [store[i] EXCEPT
                 !.content = IF updates.content = Absent THEN @ ELSE updates.content.value,
                 !.isPinned = IF updates.isPinned = Absent THEN @ ELSE updates.isPinned.flag]]

\* the guard of the edit route: a request of another user than the sender is
\* refused when its body has no isPinned
EditRefused(msg, userId, isPinned) == msg.senderId # userId /\ isPinned.type = "undefined"

\* the outcome of PATCH /api/messages/:messageId: the response, the table and
\* the sends
PatchOutcome(store, map, rs, messageId, userId, content, isPinned) ==
    IF ~HasMessage(store, messageId)
    THEN [status |-> 404, store |-> store, sends |-> <<>>]
    ELSE IF EditRefused(GetMessage(store, messageId), userId, isPinned)
    THEN [status |-> 403, store |-> store, sends |-> <<>>]
    ELSE LET updates == Updates(content, isPinned)
         IN IF NoUpdates(updates)
            THEN [status |-> 400, store |-> store, sends |-> <<>>]
            ELSE LET updatedStore == UpdateRow(store, messageId, updates)
                     updated == GetMessage(updatedStore, messageId)
                 IN [status |-> 200, store |-> updatedStore,
                     sends |-> BroadcastToChannel(map, rs,
                                   OrElse(updated.channelId, updated.directMessageId),
                                   "message.updated", [id |-> updated.id, updates |-> updates])]

\* the users who send edit requests: the author of m1, the author of m2
Editors == {"B", "C"}

InitEdit ==
    /\ clients = RunJoins(<<>>, RaceServer.joins)
    /\ readyState = [s \in Sockets |-> IF s = "s1" THEN "OPEN" ELSE "NONE"]
    /\ messages = <<EditableRow("m1", "B", "general"), EditableRow("m2", "C", "priv")>>
    /\ notifications = <<>>
    /\ lastOp = [op |-> "init"]
    /\ sent = <<>>
    /\ inflight = NoRequests
    /\ invites = <<>>
    /\ workspaceMembers = <<>>

\* PATCH /api/messages/:messageId
PatchMessage(userId, messageId, content, isPinned) ==
    \E out \in {PatchOutcome(messages, clients, readyState, messageId, userId, content, isPinned)} :
        /\ messages' = out.store
        /\ sent' = out.sends
        /\ lastOp' = [op |-> "patchMessage", userId |-> userId, messageId |-> messageId,
                      content |-> content, isPinned |-> isPinned, status |-> out.status]
        /\ UNCHANGED <<inflight, invites, workspaceMembers, clients, readyState, notifications>>

NextEdit ==
    \E userId \in Editors, messageId \in {"m1", "m2", MissingMsgId},
       content \in ContentInputs, isPinned \in IsPinnedInputs :
        PatchMessage(userId, messageId, content, isPinned)

SpecEdit == InitEdit /\ [][NextEdit]_vars

\* ------------------------------------------------------- invite specification

\* requests the invite routes handle in a run
MaxInviteRequests == 4

\* users.email
Email == [u \in Users |-> IF u = "A" THEN "a@x" ELSE IF u = "B" THEN "b@x" ELSE "c@x"]

\* a pending row of the workspace_invites table
PendingInvite(id, inviterId, inviteeUserId, inviteeEmail) ==
    [id |-> id, workspaceId |-> "w1", inviterId |-> inviterId, inviteeUserId |-> inviteeUserId,
     inviteeEmail |-> inviteeEmail, role |-> "member", status |-> "pending"]

\* ids the invite routes are called with: two rows and no row
InviteIds == {"i1", "i2", "i0"}

\* storage.getInvite
HasInvite(rows, id) == \E i \in DOMAIN rows : rows[i].id = id
GetInvite(rows, id) == rows[CHOOSE i \in DOMAIN rows : rows[i].id = id]

\* storage.updateInviteStatus
UpdateInviteStatus(rows, id, status) ==
    [i \in DOMAIN rows |-> IF rows[i].id = id THEN [rows[i] EXCEPT !.status = status] ELSE rows[i]]

\* the two ownership tests of the accept and decline routes
NotAuthorizedForInvite(invite, userId) ==
    \/ ~Falsy(invite.inviteeUserId) /\ invite.inviteeUserId # userId
    \/ Falsy(invite.inviteeUserId) /\ invite.inviteeEmail # Email[userId]

\* the notification a resolved invite creates for its inviter
InviteNotification(invite, type, userId) ==
    [userId |-> invite.inviterId, type |-> type, isRead |-> FALSE,
     data |-> [inviteId |-> invite.id, workspaceId |-> invite.workspaceId, userId |-> userId]]

\* the response of a route that changes nothing
InviteResponse(status, body, rows, members, notifs) ==
    [status |-> status, body |-> body, invites |-> rows, members |-> members,
     notifications |-> notifs, sends |-> <<>>]

\* an accept route without the tests of the invite's status
AcceptShortCircuitNone(invite) == [done |-> FALSE, status |-> 0, body |-> ""]

\* the idempotency tests of the accept route: the response they return, if any
AcceptShortCircuit(invite) ==
    IF invite.status = "accepted" THEN [done |-> TRUE, status |-> 200, body |-> "success"]
    ELSE IF invite.status = "declined"
    THEN [done |-> TRUE, status |-> 400, body |-> "Invite already declined"]
    ELSE [done |-> FALSE, status |-> 0, body |-> ""]

\* the membership step of the accept route
AddMemberOnce(members, invite, userId) ==
    IF \E i \in DOMAIN members :
          members[i].workspaceId = invite.workspaceId /\ members[i].userId = userId
    THEN members
    ELSE Append(members, [workspaceId |-> invite.workspaceId, userId |-> userId,
                          role |-> invite.role])

\* POST /api/invites/:inviteId/accept
AcceptInviteOutcome(rows, members, notifs, map, rs, inviteId, userId) ==
    IF ~HasInvite(rows, inviteId)
    THEN InviteResponse(404, "Invite not found", rows, members, notifs)
    ELSE LET invite == GetInvite(rows, inviteId)
             short == AcceptShortCircuit(invite)
             notification == InviteNotification(invite, "invite.accepted", userId)
         IN IF NotAuthorizedForInvite(invite, userId)
            THEN InviteResponse(403, "Not authorized for this invite", rows, members, notifs)
            ELSE IF short.done
            THEN InviteResponse(short.status, short.body, rows, members, notifs)
            ELSE [status |-> 200, body |-> "success",
                  invites |-> UpdateInviteStatus(rows, inviteId, "accepted"),
                  members |-> AddMemberOnce(members, invite, userId),
                  notifications |-> Append(notifs, notification),
                  sends |-> BroadcastToUser(map, rs, invite.inviterId, "notification",
                                            notification)]

\* POST /api/invites/:inviteId/decline
DeclineInviteOutcome(rows, members, notifs, map, rs, inviteId, userId) ==
    IF ~HasInvite(rows, inviteId)
    THEN InviteResponse(404, "Invite not found", rows, members, notifs)
    ELSE LET invite == GetInvite(rows, inviteId)
             notification == InviteNotification(invite, "invite.declined", userId)
         IN IF NotAuthorizedForInvite(invite, userId)
            THEN InviteResponse(403, "Not authorized for this invite", rows, members, notifs)
            ELSE [status |-> 200, body |-> "success",
                  invites |-> UpdateInviteStatus(rows, inviteId, "declined"),
                  members |-> members,
                  notifications |-> Append(notifs, notification),
                  sends |-> BroadcastToUser(map, rs, invite.inviterId, "notification",
                                            notification)]

\* A, on an open socket, invited B by user id and C by email
InitInvite ==
    /\ clients = RunJoins(<<>>, RaceServer.joins)
    /\ readyState = [s \in Sockets |-> IF s = "s1" THEN "OPEN" ELSE "NONE"]
    /\ messages = <<>>
    /\ notifications = <<>>
    /\ lastOp = [op |-> "init", handled |-> 0]
    /\ sent = <<>>
    /\ inflight = NoRequests
    /\ invites = <<PendingInvite("i1", "A", "B", Email["B"]),
                   PendingInvite("i2", "A", Null, Email["C"])>>
    /\ workspaceMembers = <<>>

AcceptInvite(userId, inviteId) ==
    /\ lastOp.handled < MaxInviteRequests
    /\ \E out \in {AcceptInviteOutcome(invites, workspaceMembers, notifications, clients,
                                       readyState, inviteId, userId)} :
          /\ invites' = out.invites
          /\ workspaceMembers' = out.members
          /\ notifications' = out.notifications
          /\ sent' = out.sends
          /\ lastOp' = [op |-> "acceptInvite", userId |-> userId, inviteId |-> inviteId,
                        status |-> out.status, body |-> out.body, handled |-> lastOp.handled + 1]
    /\ UNCHANGED <<inflight, clients, readyState, messages>>

DeclineInvite(userId, inviteId) ==
    /\ lastOp.handled < MaxInviteRequests
    /\ \E out \in {DeclineInviteOutcome(invites, workspaceMembers, notifications, clients,
                                        readyState, inviteId, userId)} :
          /\ invites' = out.invites
          /\ workspaceMembers' = out.members
          /\ notifications' = out.notifications
          /\ sent' = out.sends
          /\ lastOp' = [op |-> "declineInvite", userId |-> userId, inviteId |-> inviteId,
                        status |-> out.status, body |-> out.body, handled |-> lastOp.handled + 1]
    /\ UNCHANGED <<inflight, clients, readyState, messages>>

NextInvite ==
    \/ \E userId \in Users, inviteId \in InviteIds : AcceptInvite(userId, inviteId)
    \/ \E userId \in Users, inviteId \in InviteIds : DeclineInvite(userId, inviteId)

SpecInvite == InitInvite /\ [][NextInvite]_vars

\* ------------------------------------------------------ outsider specification

\* a user who is not a member of the private channel
Outsider == "D"

\* user ids join frames arrive with: a member of the private channel and the
\* outsider
JoiningUsers == {"A", Outsider}

\* a member of the private channel posts in it and types in it; sockets join
\* with any user id and any channel list
NextOutsider ==
    \/ \E s \in Sockets : Connect(s)
    \/ \E s \in Sockets, u \in JoiningUsers, ch \in JoinChannelInputs : Join(s, u, ch)
    \/ \E s \in Sockets : Close(s)
    \/ \E s \in Sockets : Typing(s, "B", "priv", TRUE)
    \/ PostMessage("B", Null, "priv", Null)

SpecOutsider == Init /\ [][NextOutsider]_vars

\* ------------------------------------------------------------------ properties

\* rows of the registry stored under user u
EntriesOf(u) == {i \in DOMAIN clients : clients[i].userId = u}

\* isSubscribed(u, c): a registry entry of u lists channel c
IsSubscribed(u, c) == \E i \in EntriesOf(u) : Includes(clients[i].channels, c)

\* number of sends of the last operation that went to socket s
SendsTo(s) == Cardinality({k \in DOMAIN sent : sent[k].ws = s})

\* the elements of an array
Elems(arr) == {arr[i] : i \in DOMAIN arr}

\* C1: register replaces, never merges. After a join (u, s2, c2) the registry
\* has exactly one entry for u, it holds socket s2 and exactly the list c2,
\* and u is subscribed to no channel of the entry it replaced (held by any
\* socket s1, s1 = s2 included) that is not in c2.
C1_RegisterReplaces ==
    lastOp.op = "join" =>
        /\ Cardinality(EntriesOf(lastOp.userId)) = 1
        /\ \A i \in EntriesOf(lastOp.userId) :
              /\ clients[i].ws = lastOp.ws
              /\ clients[i].channels = ChannelsOrEmpty(lastOp.channels)
        /\ \A k \in DOMAIN lastOp.replaced :
              \A c \in Elems(lastOp.replaced[k].channels) \ Elems(ChannelsOrEmpty(lastOp.channels)) :
                  ~IsSubscribed(lastOp.userId, c)

\* a second join of a user, from another socket, that leaves a channel of the first
C1_Witness ==
    /\ lastOp.op = "join"
    /\ lastOp.replaced # <<>>
    /\ lastOp.replaced[1].ws # lastOp.ws
    /\ Elems(lastOp.replaced[1].channels) \ Elems(ChannelsOrEmpty(lastOp.channels)) # {}

\* C2: broadcastToChannel with a non-empty room id sends the frame
\* {type, data, channelId: roomId}, once for every registry entry that lists the
\* room and whose socket is OPEN, and nothing else.
C2_RoomFanout ==
    (lastOp.op = "broadcastToChannel" /\ ~Falsy(lastOp.channelId)) =>
        /\ \A k \in DOMAIN sent :
              sent[k].frame = [type |-> lastOp.type, data |-> lastOp.data,
                               channelId |-> lastOp.channelId]
        /\ \A s \in Sockets :
              SendsTo(s) = Cardinality({i \in DOMAIN clients :
                                          /\ clients[i].ws = s
                                          /\ lastOp.channelId \in Elems(clients[i].channels)
                                          /\ readyState[s] = "OPEN"})

\* a room broadcast that reaches one socket exactly once and leaves out another
\* open registered socket that is not subscribed
C2_Witness ==
    /\ lastOp.op = "broadcastToChannel"
    /\ ~Falsy(lastOp.channelId)
    /\ \E s, o \in Sockets :
          /\ SendsTo(s) = 1
          /\ SendsTo(o) = 0
          /\ readyState[o] = "OPEN"
          /\ \E i \in DOMAIN clients : clients[i].ws = o

\* C8: broadcastToChannel with a null or empty room id sends nothing and
\* leaves the registry and the sockets as they were.
C8_NullRoomNoSend ==
    [][(lastOp'.op = "broadcastToChannel" /\ Falsy(lastOp'.channelId)) =>
          (sent' = <<>> /\ clients' = clients /\ readyState' = readyState)]_vars

\* a null-room broadcast on a server with an open registered socket
C8_Witness ==
    /\ lastOp.op = "broadcastToChannel"
    /\ lastOp.channelId = Null
    /\ \E i \in DOMAIN clients : readyState[clients[i].ws] = "OPEN"

\* C9: broadcastToUser sends exactly one frame {type, data}, to the socket
\* registered for the user, when that socket is OPEN, and nothing otherwise;
\* no operation sends a frame of an earlier call: a join, a connection or a
\* close sends nothing and a broadcast sends only its own frame.
C9_UserDelivery ==
    /\ lastOp.op = "broadcastToUser" =>
          IF \E i \in EntriesOf(lastOp.userId) : readyState[clients[i].ws] = "OPEN"
          THEN /\ Len(sent) = 1
               /\ \E i \in EntriesOf(lastOp.userId) : sent[1].ws = clients[i].ws
               /\ sent[1].frame = [type |-> lastOp.type, data |-> lastOp.data]
          ELSE sent = <<>>
    /\ lastOp.op \in {"init", "connection", "closing", "join", "close"} => sent = <<>>
    /\ lastOp.op = "broadcastToChannel" =>
          \A k \in DOMAIN sent :
              sent[k].frame.type = lastOp.type /\ sent[k].frame.data = lastOp.data

\* an event for a user whose registered socket is not open is dropped
C9_Witness ==
    /\ lastOp.op = "broadcastToUser"
    /\ EntriesOf(lastOp.userId) # {}
    /\ \A i \in EntriesOf(lastOp.userId) : readyState[clients[i].ws] = "CLOSING"
    /\ \E i \in DOMAIN clients : readyState[clients[i].ws] = "OPEN"
    /\ sent = <<>>

\* C10: the registry holds at most one entry per user id, and no entry
\* outlives the close of the socket it holds (a slot is absent or live).
C10_AbsentOrLive ==
    /\ \A u \in Users : Cardinality(EntriesOf(u)) <= 1
    /\ \A i \in DOMAIN clients : readyState[clients[i].ws] # "CLOSED"

\* level of an existing message in its thread: 1 for a root, one more than its
\* parent's for a reply (tables without deletions: every parent exists)
RECURSIVE LevelOf(_, _)
LevelOf(store, id) ==
    IF GetMessage(store, id).parentMessageId = Null THEN 1
    ELSE 1 + LevelOf(store, GetMessage(store, id).parentMessageId)

IsPost(op) == op.op = "postMessage"

\* the request left every table and every socket alone
NothingDone ==
    /\ messages' = messages
    /\ notifications' = notifications
    /\ sent' = <<>>

\* C3: a reply to an existing parent at level 3 is rejected with the depth-limit
\* error and nothing is persisted; a reply to a parent at level 1 or 2 is
\* accepted and persisted as the new last row.
C3_DepthLimit ==
    [][(IsPost(lastOp') /\ lastOp'.request.parentMessageId # Null
          /\ HasMessage(messages, lastOp'.request.parentMessageId)) =>
          IF LevelOf(messages, lastOp'.request.parentMessageId) >= 3
          THEN /\ lastOp'.status = 400
               /\ lastOp'.message = "Thread depth limit reached (max 3 levels)"
               /\ NothingDone
          ELSE /\ lastOp'.status = 200
               /\ messages' = Append(messages, lastOp'.body)
               /\ lastOp'.body.parentMessageId = lastOp'.request.parentMessageId
               /\ LevelOf(messages', lastOp'.body.id) \in {2, 3}]_vars

\* a fourth-level reply is refused
C3_Witness ==
    /\ IsPost(lastOp)
    /\ lastOp.status = 400
    /\ lastOp.message = "Thread depth limit reached (max 3 levels)"
    /\ HasMessage(messages, lastOp.request.parentMessageId)
    /\ LevelOf(messages, lastOp.request.parentMessageId) = 3

\* C4: an accepted reply is persisted with the channelId and the
\* directMessageId of its immediate parent, whatever the request carried.
C4_RoutingInherited ==
    (IsPost(lastOp) /\ lastOp.status = 200 /\ lastOp.request.parentMessageId # Null) =>
        LET reply == messages[Len(messages)]
            parent == GetMessage(messages, lastOp.request.parentMessageId)
        IN /\ reply = lastOp.body
           /\ reply.parentMessageId = parent.id
           /\ reply.channelId = parent.channelId
           /\ reply.directMessageId = parent.directMessageId

\* an accepted reply whose request named another channel and a DM the parent
\* is not in
C4_Witness ==
    /\ IsPost(lastOp)
    /\ lastOp.status = 200
    /\ lastOp.request.parentMessageId # Null
    /\ lastOp.request.channelId # Null
    /\ lastOp.request.channelId # lastOp.body.channelId
    /\ lastOp.request.directMessageId # lastOp.body.directMessageId

\* C5: a request without parent is rejected as ambiguous when both routing
\* targets are set and as missing when neither is; with exactly one it is
\* accepted and persisted with the routing it carried; a rejected request
\* persists nothing, broadcasts nothing and creates no notification.
C5_RootRouting ==
    [][(IsPost(lastOp') /\ lastOp'.request.parentMessageId = Null) =>
          LET hasChannel == lastOp'.request.channelId # Null
              hasDM == lastOp'.request.directMessageId # Null
          IN IF hasChannel /\ hasDM
             THEN /\ lastOp'.status = 400
                  /\ lastOp'.message = "Provide only one of channelId or directMessageId"
                  /\ NothingDone
             ELSE IF ~hasChannel /\ ~hasDM
             THEN /\ lastOp'.status = 400
                  /\ lastOp'.message = "Either channelId or directMessageId is required"
                  /\ NothingDone
             ELSE /\ lastOp'.status = 200
                  /\ messages' = Append(messages, lastOp'.body)
                  /\ lastOp'.body.parentMessageId = Null
                  /\ lastOp'.body.channelId = lastOp'.request.channelId
                  /\ lastOp'.body.directMessageId = lastOp'.request.directMessageId]_vars

\* an ambiguous root request arrives while a subscriber of the named channel
\* is connected
C5_Witness ==
    /\ IsPost(lastOp)
    /\ lastOp.request.parentMessageId = Null
    /\ lastOp.request.channelId # Null
    /\ lastOp.request.directMessageId # Null
    /\ lastOp.status = 400
    /\ \E i \in DOMAIN clients :
          /\ lastOp.request.channelId \in Elems(clients[i].channels)
          /\ readyState[clients[i].ws] = "OPEN"

\* the root of the thread of an existing message: the ancestor without parent
RECURSIVE RootOf(_, _)
RootOf(store, id) ==
    IF GetMessage(store, id).parentMessageId = Null THEN id
    ELSE RootOf(store, GetMessage(store, id).parentMessageId)

\* C6: on a table whose parent pointers are acyclic and name existing rows,
\* getThreadTree called with the id of any message of a thread returns the
\* root and the nested replies that the call with the thread's root id returns.
C6_SameTreeFromAnyNode ==
    (lastOp.op = "getThreadTree" /\ HasMessage(messages, lastOp.messageId)) =>
        /\ lastOp.result.found
        /\ lastOp.result.root.message.id = RootOf(messages, lastOp.messageId)
        /\ lastOp.result =
              GetThreadTree(messages, RootOf(messages, lastOp.messageId), lastOp.maxDepth)

\* a call with the id of a reply of a reply returns a tree with replies
C6_Witness ==
    /\ lastOp.op = "getThreadTree"
    /\ HasMessage(messages, lastOp.messageId)
    /\ LevelOf(messages, lastOp.messageId) >= 3
    /\ lastOp.result.found
    /\ lastOp.result.root.replies # <<>>

\* the users the fan-out of an accepted message has to notify
ExpectedRecipients(m, sender) ==
    IF m.directMessageId # Null
    THEN Elems(DmParticipants[m.directMessageId]) \ {sender}
    ELSE IF ChannelType[m.channelId] = "private"
    THEN Elems(ChannelMembers[m.channelId]) \ {sender}
    ELSE {}

\* rows of the notifications table created for user u about message m
RowsFor(m, u) ==
    {i \in DOMAIN notifications :
        notifications[i].userId = u /\ notifications[i].data.messageId = m.id}

\* 'notification' frames the last operation sent about a row of user u
PushesFor(u) ==
    {k \in DOMAIN sent :
        sent[k].frame.type = "notification" /\ sent[k].frame.data.userId = u}

HasOpenSocket(u) == \E i \in EntriesOf(u) : readyState[clients[i].ws] = "OPEN"

\* C7: after an accepted message the notifications table holds exactly one
\* 'message.created' row about it for every DM participant (DM message) or
\* every member (private channel message) other than the sender, and none for
\* anyone else or for a public channel; exactly one 'notification' frame
\* carrying that row went to the registered socket of each such recipient
\* whose socket is OPEN, and none to the others or to the sender.
C7_NotificationFanout ==
    (IsPost(lastOp) /\ lastOp.status = 200) =>
        LET m == lastOp.body
            R == ExpectedRecipients(m, lastOp.request.userId)
        IN \A u \in Users :
              /\ Cardinality(RowsFor(m, u)) = IF u \in R THEN 1 ELSE 0
              /\ \A i \in RowsFor(m, u) : notifications[i].type = "message.created"
              /\ Cardinality(PushesFor(u)) = IF u \in R /\ HasOpenSocket(u) THEN 1 ELSE 0
              /\ \A k \in PushesFor(u) :
                    /\ \E i \in EntriesOf(u) : sent[k].ws = clients[i].ws
                    /\ \E i \in RowsFor(m, u) : sent[k].frame.data = notifications[i]
                    /\ sent[k].frame = [type |-> "notification", data |-> sent[k].frame.data]

\* B posts to the private channel of A, B and C: A and C get a row and a frame
C7_Witness ==
    /\ IsPost(lastOp)
    /\ lastOp.status = 200
    /\ lastOp.request.userId = "B"
    /\ lastOp.body.channelId = "priv"
    /\ Cardinality(PushesFor("A")) = 1
    /\ Cardinality(PushesFor("C")) = 1
    /\ Cardinality(PushesFor("B")) = 0
    /\ RowsFor(lastOp.body, "B") = {}

\* some registry entry holds socket s
Holds(map, s) == \E i \in DOMAIN map : map[i].ws = s

\* C11: the close of a socket that no registry entry holds leaves the registry
\* as it was and sends nothing; in particular the close of the socket a user
\* joined with first, after the user joined again with another socket, leaves
\* the user registered with the second socket and its channel list.
C11_CloseOfUnheldSocket ==
    [][/\ (lastOp'.op = "close" /\ ~Holds(clients, lastOp'.ws)) =>
             (clients' = clients /\ sent' = <<>>)
       /\ (/\ lastOp'.op = "close"
           /\ lastOp'.ws = OldSocket
           /\ MapHas(clients, ReconnectingUser)
           /\ MapGet(clients, ReconnectingUser).ws = NewSocket) =>
             (/\ MapHas(clients', ReconnectingUser)
              /\ MapGet(clients', ReconnectingUser) = MapGet(clients, ReconnectingUser))]_vars

\* the late close of the first socket of a user who is registered with the
\* second, still open, socket and a channel list
C11_Witness ==
    /\ lastOp.op = "close"
    /\ lastOp.ws = OldSocket
    /\ MapHas(clients, ReconnectingUser)
    /\ MapGet(clients, ReconnectingUser).ws = NewSocket
    /\ MapGet(clients, ReconnectingUser).channels # <<>>
    /\ readyState[NewSocket] = "OPEN"

\* C12: a reply whose parentMessageId names no row of the messages table is
\* rejected with the parent-not-found error, not the depth-limit error, and
\* nothing is persisted, broadcast or notified.
C12_ParentNotFound ==
    [][(/\ IsPost(lastOp')
        /\ lastOp'.request.parentMessageId # Null
        /\ ~HasMessage(messages, lastOp'.request.parentMessageId)) =>
          (/\ lastOp'.status = 400
           /\ lastOp'.message = "Parent message not found"
           /\ NothingDone)]_vars

\* a reply to a missing parent arrives with a valid routing target, while the
\* table holds other messages and a subscriber of that target is connected
C12_Witness ==
    /\ IsPost(lastOp)
    /\ lastOp.request.parentMessageId # Null
    /\ ~HasMessage(messages, lastOp.request.parentMessageId)
    /\ lastOp.status = 400
    /\ messages # <<>>
    /\ lastOp.request.channelId # Null
    /\ lastOp.request.directMessageId = Null
    /\ \E i \in DOMAIN clients :
          /\ lastOp.request.channelId \in Elems(clients[i].channels)
          /\ readyState[clients[i].ws] = "OPEN"

\* C13: broadcastReactionUpdate(messageId) sends the frame
\* {type: 'reactionUpdate', messageId} once for every registry entry whose
\* socket is OPEN, whatever the entry's channel list, and nothing else.
C13_ReactionToEveryLiveEntry ==
    lastOp.op = "broadcastReactionUpdate" =>
        /\ \A k \in DOMAIN sent :
              sent[k].frame = [type |-> "reactionUpdate", messageId |-> lastOp.messageId]
        /\ \A s \in Sockets :
              SendsTo(s) = Cardinality({i \in DOMAIN clients :
                                          clients[i].ws = s /\ readyState[s] = "OPEN"})

\* a reaction broadcast that reaches an entry with an empty channel list and
\* skips an entry whose socket is closing
C13_Witness ==
    /\ lastOp.op = "broadcastReactionUpdate"
    /\ \E i, j \in DOMAIN clients :
          /\ clients[i].channels = <<>>
          /\ readyState[clients[i].ws] = "OPEN"
          /\ SendsTo(clients[i].ws) = 1
          /\ readyState[clients[j].ws] = "CLOSING"
          /\ SendsTo(clients[j].ws) = 0

\* ids of the messages of a thread tree as the route serialises it
RECURSIVE TreeIds(_)
TreeIds(node) ==
    {node.message.id} \cup UNION {TreeIds(node.replies[i]) : i \in DOMAIN node.replies}

\* the thread view GET /api/threads/:messageId serves for a message id
ThreadView(id) == GetThreadTree(messages, id, ThreadViewDepth)

\* C14: after any sequence of message creations handled one at a time, every
\* persisted message is in the tree getThreadTree(m.id, 3) returns: the view
\* exists, its root is the root of the message's thread and no accepted
\* message is cut off by the read-time depth limit.
C14_DepthLimitsAgree ==
    \A i \in DOMAIN messages :
        LET view == ThreadView(messages[i].id)
        IN /\ view.found
           /\ view.root.message.id = RootOf(messages, messages[i].id)
           /\ messages[i].id \in TreeIds(view.root)

\* a reply accepted at the third level that its thread view contains
C14_Witness ==
    /\ IsPost(lastOp)
    /\ lastOp.status = 200
    /\ LevelOf(messages, lastOp.body.id) = 3
    /\ lastOp.body.id \in TreeIds(ThreadView(lastOp.body.id).root)

\* s is a prefix of t
IsPrefix(s, t) == Len(s) <= Len(t) /\ SubSeq(t, 1, Len(s)) = s

\* C15: when a storage call of the notification fan-out throws, the message
\* created by the request stays in the table, the rows created before the
\* throw stay too, the room broadcast has gone to every open subscriber of the
\* room, and the request responds 200 with the message.
C15_FanoutFailureIsolated ==
    [][(IsPost(lastOp') /\ lastOp'.threw) =>
          (/\ Len(messages') = Len(messages) + 1
           /\ SubSeq(messages', 1, Len(messages)) = messages
           /\ lastOp'.status = 200
           /\ lastOp'.body = messages'[Len(messages')]
           /\ IsPrefix(notifications, notifications')
           /\ \A i \in DOMAIN clients :
                 (/\ OrElse(lastOp'.body.channelId, lastOp'.body.directMessageId)
                        \in Elems(clients[i].channels)
                  /\ readyState[clients[i].ws] = "OPEN") =>
                    \E k \in DOMAIN sent' :
                        /\ sent'[k].ws = clients[i].ws
                        /\ sent'[k].frame.type = "message"
                        /\ sent'[k].frame.data = lastOp'.body)]_vars

\* the second createNotification of a private-channel message throws: the
\* first recipient has its row, an open subscriber got the message frame and
\* the response is the message
C15_Witness ==
    /\ IsPost(lastOp)
    /\ lastOp.threw
    /\ lastOp.status = 200
    /\ lastOp.body.channelId = "priv"
    /\ Cardinality(RowsFor(lastOp.body, "A")) = 1
    /\ RowsFor(lastOp.body, "C") = {}
    /\ \E k \in DOMAIN sent : sent[k].frame.type = "message"

\* n copies of x
Repeat(x, n) == [i \in 1..n |-> x]

\* the frames a call has to deliver to socket s: one per registry entry that
\* holds s with an OPEN state and is addressed by the call
FramesOwed(call, s) ==
    IF call.fn = "broadcastToChannel"
    THEN Repeat([type |-> call.type, data |-> call.data, channelId |-> call.target],
                Cardinality({i \in DOMAIN clients :
                                /\ clients[i].ws = s
                                /\ readyState[s] = "OPEN"
                                /\ call.target \in Elems(clients[i].channels)}))
    ELSE Repeat([type |-> call.type, data |-> call.data],
                Cardinality({i \in DOMAIN clients :
                                /\ clients[i].ws = s
                                /\ readyState[s] = "OPEN"
                                /\ clients[i].userId = call.target}))

\* the frames the calls of a sequence owe to socket s, in call order
RECURSIVE FramesOwedInOrder(_, _)
FramesOwedInOrder(calls, s) ==
    IF calls = <<>> THEN <<>>
    ELSE FramesOwed(Head(calls), s) \o FramesOwedInOrder(Tail(calls), s)

\* the frames socket s received, in order
Received(s) ==
    LET mine == SelectSeq(sent, LAMBDA x : x.ws = s)
    IN [k \in 1..Len(mine) |-> mine[k].frame]

\* C16: for a sequence of broadcastToChannel and broadcastToUser calls, the
\* frames a socket receives are the frames of the calls that address an entry
\* holding it, in the order of the calls, each once per such entry.
C16_PerRecipientOrder ==
    lastOp.op = "calls" =>
        \A s \in Sockets : Received(s) = FramesOwedInOrder(lastOp.calls, s)

\* a socket that received the frame of a user call between the frames of two
\* room calls
C16_Witness ==
    /\ lastOp.op = "calls"
    /\ Len(lastOp.calls) = 3
    /\ lastOp.calls[1].fn = "broadcastToChannel"
    /\ lastOp.calls[2].fn = "broadcastToUser"
    /\ lastOp.calls[3].fn = "broadcastToChannel"
    /\ \E s \in Sockets :
          /\ Len(Received(s)) = 3
          /\ Received(s)[1].data = "p1"
          /\ Received(s)[2].data = "p2"
          /\ Received(s)[3].data = "p3"

\* a walk is in progress
DepthWalking == lastOp.op = "depthWalk"
TreeWalking == lastOp.op \in {"rootWalk", "expand"}

\* the table has a row that is its own ancestor
RECURSIVE ReachesFrom(_, _, _)
ReachesFrom(store, id, fuel) ==
    IF fuel = 0 \/ ~HasMessage(store, id) \/ Falsy(GetMessage(store, id).parentMessageId)
    THEN {}
    ELSE {GetMessage(store, id).parentMessageId}
         \cup ReachesFrom(store, GetMessage(store, id).parentMessageId, fuel - 1)

OnCycle(store, id) == id \in ReachesFrom(store, id, Len(store))

\* C17: on every parent graph, cyclic ones included, the depth check of POST
\* /api/messages makes at most 3 parent lookups and its loop ends with the
\* value the route tests; the root walk of getThreadTree runs at most one
\* iteration per row and one more, the level loop never passes maxDepth, and
\* every call returns, with the value of the function.
C17_WalksTerminate ==
    /\ [](lastOp.op \in {"depthWalk", "depthWalkDone"} => lastOp.lookups <= 3)
    /\ [](lastOp.op = "depthWalkDone" =>
             lastOp.parentDepth = ParentDepth(messages, lastOp.request))
    /\ [](lastOp.op \in {"rootWalk", "expand", "threadTreeDone"} =>
             lastOp.iterations <= Len(messages) + 1)
    /\ [](lastOp.op \in {"expand", "threadTreeDone"} => lastOp.depth <= lastOp.maxDepth)
    /\ [](lastOp.op = "threadTreeDone" =>
             lastOp.result = GetThreadTree(messages, lastOp.request, lastOp.maxDepth))
    /\ (DepthWalking ~> (lastOp.op = "depthWalkDone"))
    /\ (TreeWalking ~> (lastOp.op = "threadTreeDone"))

\* getThreadTree has returned a tree for a message that is its own ancestor
C17_Witness ==
    /\ lastOp.op = "threadTreeDone"
    /\ HasMessage(messages, lastOp.request)
    /\ OnCycle(messages, lastOp.request)
    /\ GetMessage(messages, lastOp.request).parentMessageId # lastOp.request
    /\ lastOp.result.found
    /\ lastOp.result.root.replies # <<>>

\* C18: after any sequence of POST /api/messages requests handled one at a
\* time, accepted or rejected, every persisted message has exactly one of
\* channelId and directMessageId set, and every persisted reply has an
\* existing parent and the channelId and directMessageId of that parent and
\* of the root of its thread.
C18_RoutingInvariant ==
    \A i \in DOMAIN messages :
        LET m == messages[i]
        IN /\ (m.channelId # Null) # (m.directMessageId # Null)
           /\ m.channelId # Null => m.channelId \in ChannelIds
           /\ m.directMessageId # Null => m.directMessageId \in DmIds
           /\ m.parentMessageId # Null =>
                 /\ HasMessage(messages, m.parentMessageId)
                 /\ m.channelId = GetMessage(messages, m.parentMessageId).channelId
                 /\ m.directMessageId = GetMessage(messages, m.parentMessageId).directMessageId
                 /\ m.channelId = GetMessage(messages, RootOf(messages, m.id)).channelId
                 /\ m.directMessageId = GetMessage(messages, RootOf(messages, m.id)).directMessageId

\* a table with a DM thread two replies deep, after a request that was rejected
C18_Witness ==
    /\ IsPost(lastOp)
    /\ lastOp.status = 400
    /\ \E i \in DOMAIN messages :
          /\ messages[i].directMessageId = "dm1"
          /\ LevelOf(messages, messages[i].id) = 3

\* the operations that send frames to registry entries
IsBroadcast(op) ==
    op.op \in {"broadcastToChannel", "broadcastToUser", "broadcastReactionUpdate", "typing"}

\* C19: a join (u, s2) of a user registered with another socket s1 leaves s1
\* as it was (it is not closed and gets no frame), and while s1 has not
\* joined again, and so is held by no registry entry, no room broadcast, user
\* broadcast, reaction update or typing relay sends it a frame.
C19_SupersededSocketSilent ==
    [][/\ (/\ lastOp'.op = "join"
           /\ lastOp'.replaced # <<>>
           /\ lastOp'.replaced[1].ws # lastOp'.ws) =>
             (/\ readyState' = readyState
              /\ sent' = <<>>
              /\ ~Holds(clients', lastOp'.replaced[1].ws)
                    \/ \E i \in DOMAIN clients' :
                          /\ clients'[i].ws = lastOp'.replaced[1].ws
                          /\ clients'[i].userId # lastOp'.userId)
       /\ (IsBroadcast(lastOp') /\ ~Holds(clients', OldSocket)) =>
             \A k \in DOMAIN sent' : sent'[k].ws # OldSocket]_vars

\* a reaction update on a server where the first socket of the user is still
\* open and superseded: the second socket gets the frame, the first nothing
C19_Witness ==
    /\ lastOp.op = "broadcastReactionUpdate"
    /\ readyState[OldSocket] = "OPEN"
    /\ ~Holds(clients, OldSocket)
    /\ MapHas(clients, ReconnectingUser)
    /\ MapGet(clients, ReconnectingUser).ws = NewSocket
    /\ SendsTo(NewSocket) >= 1
    /\ SendsTo(OldSocket) = 0

\* C20: a typing frame {type: 'typing', userId, channelId, isTyping} received
\* on a socket is relayed as {type: 'typing', data: {userId, isTyping},
\* channelId}, once for every registry entry that lists channelId and whose
\* socket is OPEN and to nobody else (to nobody when channelId is missing), and
\* it changes neither the registry nor the sockets nor any table.
C20_TypingRelayed ==
    [][lastOp'.op = "typing" =>
          (/\ clients' = clients
           /\ readyState' = readyState
           /\ messages' = messages
           /\ notifications' = notifications
           /\ \A k \in DOMAIN sent' :
                 sent'[k].frame = [type |-> "typing",
                                   data |-> [userId |-> lastOp'.message.userId,
                                             isTyping |-> lastOp'.message.isTyping],
                                   channelId |-> lastOp'.message.channelId]
           /\ \A s \in Sockets :
                 Cardinality({k \in DOMAIN sent' : sent'[k].ws = s})
                  = Cardinality({i \in DOMAIN clients :
                                   /\ clients[i].ws = s
                                   /\ lastOp'.message.channelId \in Elems(clients[i].channels)
                                   /\ readyState[s] = "OPEN"}))]_vars

\* a typing frame sent under the user id of somebody else's entry, relayed to
\* the open subscriber of the room and not to an open entry outside the room
C20_Witness ==
    /\ lastOp.op = "typing"
    /\ MapHas(clients, lastOp.message.userId)
    /\ MapGet(clients, lastOp.message.userId).ws # lastOp.ws
    /\ \E i, j \in DOMAIN clients :
          /\ lastOp.message.channelId \in Elems(clients[i].channels)
          /\ readyState[clients[i].ws] = "OPEN"
          /\ SendsTo(clients[i].ws) = 1
          /\ lastOp.message.channelId \notin Elems(clients[j].channels)
          /\ readyState[clients[j].ws] = "OPEN"
          /\ SendsTo(clients[j].ws) = 0

\* the nodes of a serialised tree in preorder, each with its level and the id
\* of the message of the node it is a reply of
RECURSIVE FlattenNodes(_, _, _)
FlattenNodes(nodeSeq, level, parentId) ==
    IF nodeSeq = <<>> THEN <<>>
    ELSE <<[message |-> Head(nodeSeq).message, level |-> level, parent |-> parentId]>>
         \o FlattenNodes(Head(nodeSeq).replies, level + 1, Head(nodeSeq).message.id)
         \o FlattenNodes(Tail(nodeSeq), level, parentId)

\* C21: on a table whose parent pointers are acyclic and name existing rows,
\* getThreadTree(id, maxDepth) for an existing id returns a tree whose root is
\* the root of the thread at level 1, with no node below level maxDepth, every
\* node at the level of its message and under the node of its parent, and
\* every message of the thread at a level <= maxDepth exactly once; it returns
\* not-found exactly when the id names no message.
C21_TreeShape ==
    lastOp.op = "getThreadTree" =>
        IF ~HasMessage(messages, lastOp.messageId) THEN lastOp.result = NotFound
        ELSE /\ lastOp.result.found
             /\ LET entries == FlattenNodes(<<lastOp.result.root>>, 1, Null)
                    rootId == RootOf(messages, lastOp.messageId)
                IN /\ entries[1].message.id = rootId
                   /\ \A k \in DOMAIN entries :
                         /\ entries[k].level <= lastOp.maxDepth
                         /\ entries[k].message \in Elems(messages)
                         /\ entries[k].level = LevelOf(messages, entries[k].message.id)
                         /\ entries[k].parent = entries[k].message.parentMessageId
                         /\ RootOf(messages, entries[k].message.id) = rootId
                   /\ \A i \in DOMAIN messages :
                         (/\ RootOf(messages, messages[i].id) = rootId
                          /\ LevelOf(messages, messages[i].id) <= lastOp.maxDepth) =>
                            Cardinality({k \in DOMAIN entries :
                                            entries[k].message.id = messages[i].id}) = 1

\* a call with maxDepth 2 on a thread with two replies at level 2 and one at
\* level 3: the tree has the two replies and not the third level
C21_Witness ==
    /\ lastOp.op = "getThreadTree"
    /\ lastOp.maxDepth = 2
    /\ lastOp.result.found
    /\ Len(lastOp.result.root.replies) = 2
    /\ \E i \in DOMAIN messages :
          /\ RootOf(messages, messages[i].id) = lastOp.result.root.message.id
          /\ LevelOf(messages, messages[i].id) = 3

\* C23: after the close handler of a socket has run, no registry entry holds
\* that socket, whatever joins the socket sent before, joins under two or more
\* user ids included.
C23_CloseRemovesSocket ==
    [][lastOp'.op = "close" => ~Holds(clients', lastOp'.ws)]_vars

\* the rows a walk of parent pointers from id passes, the row of id excluded
RECURSIVE AncestorsOf(_, _)
AncestorsOf(store, id) ==
    IF GetMessage(store, id).parentMessageId = Null THEN {}
    ELSE {GetMessage(store, id).parentMessageId}
         \cup AncestorsOf(store, GetMessage(store, id).parentMessageId)

\* C22: whatever the interleaving of the lookups and inserts of concurrent
\* message-creation requests, with no deletion, every row of the messages
\* table has an existing parent or none and at most two ancestors.
C22_DepthBoundUnderRace ==
    \A i \in DOMAIN messages :
        /\ messages[i].parentMessageId # Null => HasMessage(messages, messages[i].parentMessageId)
        /\ Cardinality(AncestorsOf(messages, messages[i].id)) <= DepthLimit - 1

\* a request has inserted a third-level reply and awaits its sender lookup
\* while another request, a reply to the same parent that passed its depth
\* check too, is about to insert
C22_Witness ==
    \E r \in Handlers, q \in Handlers :
        /\ inflight[r].pc = "sender"
        /\ Cardinality(AncestorsOf(messages, inflight[r].message.id)) = 2
        /\ inflight[q].pc = "insert"
        /\ inflight[q].request.parentMessageId = inflight[r].message.parentMessageId

\* the ids of the messages whose 'message' events for a room socket s
\* received, in the order of receipt
MessageEventsOf(s, room) ==
    LET mine == SelectSeq(sent, LAMBDA x : /\ x.ws = s
                                           /\ x.frame.type = "message"
                                           /\ x.frame.channelId = room)
    IN [k \in 1..Len(mine) |-> mine[k].frame.data.id]

\* position of an element in a sequence without repetitions
IndexIn(seq, x) == CHOOSE i \in DOMAIN seq : seq[i] = x

\* the room a message was persisted in
RoomOf(id) == OrElse(GetMessage(messages, id).channelId, GetMessage(messages, id).directMessageId)

\* the open sockets of the entries subscribed to a room
SubscribedSockets(room) ==
    {clients[i].ws : i \in {j \in DOMAIN clients :
                               /\ room \in Elems(clients[j].channels)
                               /\ readyState[clients[j].ws] = "OPEN"}}

\* C30 as stated: a connection subscribed to a room receives the 'message'
\* events of the room's messages in the order in which the messages were
\* inserted.
C30_BroadcastFollowsInsertOrder ==
    \A room \in RoomIds : \A s \in SubscribedSockets(room) :
        LET ids == MessageEventsOf(s, room)
        IN \A j \in DOMAIN ids : \A k \in DOMAIN ids :
              j < k => IndexIn(lastOp.inserted, ids[j]) < IndexIn(lastOp.inserted, ids[k])

\* C30, amended: a connection subscribed to a room receives the 'message'
\* events of the room's messages in the order in which the requests made their
\* broadcastToChannel calls, i.e. the order in which their sender lookups
\* resolved, each event once.
C30_BroadcastFollowsCallOrder ==
    \A room \in RoomIds : \A s \in SubscribedSockets(room) :
        MessageEventsOf(s, room) = SelectSeq(lastOp.published, LAMBDA id : RoomOf(id) = room)

\* two requests inserted their messages in one order and made their room
\* broadcasts in the other; the subscriber received both events
C30_Witness ==
    /\ Len(lastOp.published) >= 2
    /\ IndexIn(lastOp.inserted, lastOp.published[1]) > IndexIn(lastOp.inserted, lastOp.published[2])
    /\ Len(MessageEventsOf("s1", "general")) >= 2
    /\ MessageEventsOf("s1", "general")[1] = lastOp.published[1]

\* C24: whatever the interleaving of message-creation and message-deletion
\* requests, a reply is inserted only while the row of its parent is in the
\* messages table.
C24_ParentExistsAtInsert ==
    [][\A i \in DOMAIN messages' :
          (/\ messages'[i] \notin Elems(messages)
           /\ messages'[i].parentMessageId # Null) =>
             HasMessage(messages, messages'[i].parentMessageId)]_vars

\* C25: a POST /api/messages that answers with an error status has persisted
\* no message, also when the storage call that fails is the sender lookup made
\* after the insert.
C25_ErrorMeansNothingPersisted ==
    [][(IsPost(lastOp') /\ lastOp'.status >= 400) => messages' = messages]_vars

\* C26: a PATCH /api/messages/:messageId from a user who is not the sender of
\* the message leaves the content of the message as it was, whatever content
\* and isPinned the body carries.
C26_OnlyAuthorEditsContent ==
    [][(/\ lastOp'.op = "patchMessage"
        /\ HasMessage(messages, lastOp'.messageId)
        /\ GetMessage(messages, lastOp'.messageId).senderId # lastOp'.userId) =>
          GetMessage(messages', lastOp'.messageId).content
              = GetMessage(messages, lastOp'.messageId).content]_vars

\* the user an invite is for: by user id, or by email when it has no user id
IsInvitee(invite, userId) ==
    IF invite.inviteeUserId # Null THEN invite.inviteeUserId = userId
    ELSE invite.inviteeEmail = Email[userId]

\* a request left the invites, the members and the notifications as they were
\* and sent nothing
InviteStateKept ==
    /\ invites' = invites
    /\ workspaceMembers' = workspaceMembers
    /\ notifications' = notifications
    /\ sent' = <<>>

\* C27: an accept request for an invite that is already accepted changes
\* nothing (status, membership, notifications) and, sent by the invitee, is
\* answered with success; an accept request for a declined invite is rejected
\* and changes nothing.
C27_AcceptIdempotent ==
    [][(lastOp'.op = "acceptInvite" /\ HasInvite(invites, lastOp'.inviteId)) =>
          LET invite == GetInvite(invites, lastOp'.inviteId)
          IN /\ invite.status = "accepted" =>
                   /\ InviteStateKept
                   /\ IsInvitee(invite, lastOp'.userId) =>
                         (lastOp'.status = 200 /\ lastOp'.body = "success")
             /\ invite.status = "declined" =>
                   /\ InviteStateKept
                   /\ lastOp'.status >= 400]_vars

\* the invitee's second accept of an accepted invite was answered with
\* success, and the inviter has the one notification of the first accept
C27_Witness ==
    /\ lastOp.op = "acceptInvite"
    /\ lastOp.handled >= 2
    /\ lastOp.inviteId = "i1"
    /\ lastOp.userId = "B"
    /\ lastOp.status = 200
    /\ sent = <<>>
    /\ GetInvite(invites, "i1").status = "accepted"
    /\ Len(notifications) = 1
    /\ Len(workspaceMembers) = 1

\* C28: once the status of an invite is 'accepted' or 'declined', an accept or
\* decline request of the invitee leaves the status as it is and creates no
\* notification.
C28_ResolvedIsTerminal ==
    [][(/\ lastOp'.op \in {"acceptInvite", "declineInvite"}
        /\ HasInvite(invites, lastOp'.inviteId)
        /\ GetInvite(invites, lastOp'.inviteId).status \in {"accepted", "declined"}
        /\ IsInvitee(GetInvite(invites, lastOp'.inviteId), lastOp'.userId)) =>
          /\ GetInvite(invites', lastOp'.inviteId).status
                = GetInvite(invites, lastOp'.inviteId).status
          /\ notifications' = notifications]_vars

\* the types of the frames that are scoped to a room
RoomEventTypes == {"message", "message.updated", "message.deleted", "typing"}

\* C29: a socket receives a room-scoped frame for a private channel only if
\* the user ids it joined with, in the entries subscribed to that channel, are
\* members of the channel.
C29_PrivateRoomConfidential ==
    \A k \in DOMAIN sent :
        (/\ sent[k].frame.type \in RoomEventTypes
         /\ sent[k].frame.channelId \in ChannelIds
         /\ ChannelType[sent[k].frame.channelId] = "private") =>
            \A i \in DOMAIN clients :
                (/\ clients[i].ws = sent[k].ws
                 /\ sent[k].frame.channelId \in Elems(clients[i].channels)) =>
                    clients[i].userId \in Elems(ChannelMembers[sent[k].frame.channelId])

====
